---------------------------- MODULE Spec2Model ----------------------------
(***************************************************************************)
(* A model of src/traverse_and_write.py: the FileTraverser class (its      *)
(* exclusion configuration, file filter and directory walk), its           *)
(* renderers and main().                                                   *)
(*                                                                         *)
(* File names, extensions, patterns and file contents are strings; a path  *)
(* is the sequence of its components below the file system's root.         *)
(***************************************************************************)
EXTENDS Naturals, Integers, Sequences, FiniteSets, TLC

(***************************************************************************)
(* Strings, as Python's str operations used by the script.                 *)
(***************************************************************************)

\* s[i] as a one-character string (1-based).
Ch(s, i) == SubSeq(s, i, i)

\* str.startswith / str.endswith
StartsWith(s, p) == Len(s) >= Len(p) /\ SubSeq(s, 1, Len(p)) = p
EndsWith(s, p) == Len(s) >= Len(p) /\ SubSeq(s, Len(s) - Len(p) + 1, Len(s)) = p

UpperLetters == "ABCDEFGHIJKLMNOPQRSTUVWXYZ"
LowerLetters == "abcdefghijklmnopqrstuvwxyz"

\* The printable ASCII characters in code-point order: from the space (32) to
\* the underscore (95), and from "a" (97) to the tilde (126).
PrintableLow ==
    " !\"#$%&'()*+,-./0123456789:;<=>?@ABCDEFGHIJKLMNOPQRSTUVWXYZ[\\]^_"
PrintableHigh == "abcdefghijklmnopqrstuvwxyz{|}~"

\* ord(c) for the characters the model uses.
Ord(c) ==
    IF c = "\n" THEN 10
    ELSE IF \E i \in 1..Len(PrintableLow) : Ch(PrintableLow, i) = c
         THEN 31 + (CHOOSE i \in 1..Len(PrintableLow) : Ch(PrintableLow, i) = c)
         ELSE 96 + (CHOOSE i \in 1..Len(PrintableHigh) : Ch(PrintableHigh, i) = c)

\* c.lower()
LowerCh(c) ==
    IF \E i \in 1..Len(UpperLetters) : Ch(UpperLetters, i) = c
    THEN Ch(LowerLetters, CHOOSE i \in 1..Len(UpperLetters) : Ch(UpperLetters, i) = c)
    ELSE c

\* str.lower()
RECURSIVE Lower(_)
Lower(s) ==
    IF s = "" THEN ""
    ELSE LowerCh(Ch(s, 1)) \o Lower(SubSeq(s, 2, Len(s)))

\* c * n
RECURSIVE Rep(_, _)
Rep(c, n) == IF n = 0 THEN "" ELSE c \o Rep(c, n - 1)

\* str.rfind(c), 1-based, 0 when c does not occur.
RFind(s, c) ==
    LET hits == {i \in 1..Len(s) : Ch(s, i) = c}
    IN  IF hits = {} THEN 0 ELSE CHOOSE i \in hits : \A j \in hits : j <= i

\* str(n) for a natural number.
RECURSIVE Dec(_)
Dec(n) ==
    IF n < 10 THEN Ch("0123456789", n + 1)
    ELSE Dec(n \div 10) \o Ch("0123456789", (n % 10) + 1)

\* format(n, ","): the decimal digits in groups of three.
RECURSIVE WithCommas(_)
WithCommas(n) ==
    IF n < 1000 THEN Dec(n)
    ELSE WithCommas(n \div 1000) \o ","
           \o SubSeq(Dec(1000 + (n % 1000)), 2, 4)

\* format(n / (1024 * 1024), ".2f") for a natural number n of bytes: no n is
\* half way between two hundredths of 1048576.
Megabytes(n) ==
    LET hundredths == (n * 100 + 524288) \div 1048576
    IN  Dec(hundredths \div 100) \o "." \o SubSeq(Dec(100 + (hundredths % 100)), 2, 3)

\* Python's < on str: by code point, a proper prefix first.
RECURSIVE StrLess(_, _)
StrLess(a, b) ==
    IF b = "" THEN FALSE
    ELSE IF a = "" THEN TRUE
    ELSE IF Ch(a, 1) = Ch(b, 1)
         THEN StrLess(SubSeq(a, 2, Len(a)), SubSeq(b, 2, Len(b)))
         ELSE Ord(Ch(a, 1)) < Ord(Ch(b, 1))

\* sep.join(parts)
RECURSIVE Join(_, _)
Join(parts, sep) ==
    IF parts = <<>> THEN ""
    ELSE IF Len(parts) = 1 THEN parts[1]
    ELSE parts[1] \o sep \o Join(Tail(parts), sep)

(***************************************************************************)
(* Paths (pathlib.PurePath).                                               *)
(***************************************************************************)

\* Path.name
PathName(p) == p[Len(p)]

\* Path.suffix: the last dot and what follows it, unless that dot is the
\* first or the last character of the name.
Suffix(name) ==
    LET k == RFind(name, ".")
    IN  IF 1 < k /\ k < Len(name) THEN SubSeq(name, k, Len(name)) ELSE ""

\* str(path) of an absolute path / of a relative one.
AbsStr(p) == "/" \o Join(p, "/")
RelStr(p) == IF p = <<>> THEN "." ELSE Join(p, "/")

\* Path.relative_to(base), for a path below base.
RelativeTo(p, base) == SubSeq(p, Len(base) + 1, Len(p))

IsUnder(p, base) == Len(p) >= Len(base) /\ SubSeq(p, 1, Len(base)) = base

\* Path.__lt__: component by component.
RECURSIVE PathLess(_, _)
PathLess(p, q) ==
    IF q = <<>> THEN FALSE
    ELSE IF p = <<>> THEN TRUE
    ELSE IF p[1] = q[1] THEN PathLess(Tail(p), Tail(q))
    ELSE StrLess(p[1], q[1])

Insert_appends(p, s) == Append(s, p)

\* sorted(files)
RECURSIVE Insert(_, _)
Insert(p, s) ==
    IF s = <<>> THEN <<p>>
    ELSE IF PathLess(p, s[1]) THEN <<p>> \o s
    ELSE <<s[1]>> \o Insert(p, Tail(s))

Sorted_keeps_order(s) == s

RECURSIVE Sorted(_)
Sorted(s) == IF s = <<>> THEN <<>> ELSE Insert(s[1], Sorted(Tail(s)))

(***************************************************************************)
(* re.match(pattern, name), for the syntax the default patterns use:       *)
(* literal characters, \c, ., [ranges], and the quantifiers *, ? and {n,}. *)
(***************************************************************************)

Digits == "0123456789"
IsDigit(c) == \E i \in 1..Len(Digits) : Ch(Digits, i) = c
DigitVal(c) == (CHOOSE i \in 1..Len(Digits) : Ch(Digits, i) = c) - 1

\* The index of the first occurrence of c in src at or after i (0: none).
FindFrom(src, c, i) ==
    LET hits == {k \in i..Len(src) : Ch(src, k) = c}
    IN  IF hits = {} THEN 0 ELSE CHOOSE k \in hits : \A j \in hits : k <= j

RECURSIVE ParseNat(_)
ParseNat(s) ==
    IF s = "" THEN 0
    ELSE 10 * ParseNat(SubSeq(s, 1, Len(s) - 1)) + DigitVal(Ch(s, Len(s)))

\* The quantifier at src[i..]: [lo, hi, len], hi = -1 for no upper limit.
Quantifier(src, i) ==
    IF i > Len(src) THEN [lo |-> 1, hi |-> 1, len |-> 0]
    ELSE IF Ch(src, i) = "*" THEN [lo |-> 0, hi |-> -1, len |-> 1]
    ELSE IF Ch(src, i) = "?" THEN [lo |-> 0, hi |-> 1, len |-> 1]
    ELSE IF Ch(src, i) = "{"
         THEN LET close == FindFrom(src, "}", i)
                  comma == FindFrom(src, ",", i)
              IN  [lo |-> ParseNat(SubSeq(src, i + 1, comma - 1)),
                   hi |-> IF comma + 1 = close THEN -1
                          ELSE ParseNat(SubSeq(src, comma + 1, close - 1)),
                   len |-> close - i + 1]
    ELSE [lo |-> 1, hi |-> 1, len |-> 0]

\* The item at src[i..]: what one character must be, and the item's length.
Item(src, i) ==
    IF Ch(src, i) = "\\" THEN [kind |-> "lit", arg |-> Ch(src, i + 1), len |-> 2]
    ELSE IF Ch(src, i) = "." THEN [kind |-> "any", arg |-> "", len |-> 1]
    ELSE IF Ch(src, i) = "["
         THEN LET close == FindFrom(src, "]", i)
              IN  [kind |-> "class", arg |-> SubSeq(src, i + 1, close - 1),
                   len |-> close - i + 1]
    ELSE [kind |-> "lit", arg |-> Ch(src, i), len |-> 1]

\* Whether c is in the character class with body cls ("a-f0-9").
RECURSIVE InClass(_, _)
InClass(cls, c) ==
    IF cls = "" THEN FALSE
    ELSE IF Len(cls) >= 3 /\ Ch(cls, 2) = "-"
         THEN \/ (Ord(Ch(cls, 1)) <= Ord(c) /\ Ord(c) <= Ord(Ch(cls, 3)))
              \/ InClass(SubSeq(cls, 4, Len(cls)), c)
    ELSE Ch(cls, 1) = c \/ InClass(SubSeq(cls, 2, Len(cls)), c)

CharMatches(item, c) ==
    IF item.kind = "any" THEN c # "\n"
    ELSE IF item.kind = "lit" THEN c = item.arg
    ELSE InClass(item.arg, c)

\* The positions of name an item can end at, starting from a position in from.
\* (An item without a quantifier takes one character.)
ItemStep(item, from, name) ==
    IF item.lo = 1 /\ item.hi = 1
    THEN {p + 1 : p \in {r \in from : r < Len(name) /\ CharMatches(item, Ch(name, r + 1))}}
    ELSE {q \in 0..Len(name) :
            \E p \in from :
                /\ q >= p
                /\ q - p >= item.lo
                /\ (item.hi = -1 \/ q - p <= item.hi)
                /\ \A k \in (p + 1)..q : CharMatches(item, Ch(name, k))}

\* re.match from the item at src[i..] on: the items of the pattern are run
\* one after the other on the positions the items before them can end at.
\* The pattern matches at the start of name (not necessarily all of it).
RECURSIVE MatchFrom(_, _, _, _)
MatchFrom(src, i, from, name) ==
    IF from = {} THEN FALSE
    ELSE IF i > Len(src) THEN TRUE
    ELSE \E it \in {Item(src, i)} :
            \E qu \in {Quantifier(src, i + it.len)} :
               MatchFrom(src, i + it.len + qu.len,
                         ItemStep([kind |-> it.kind, arg |-> it.arg,
                                   lo |-> qu.lo, hi |-> qu.hi], from, name),
                         name)

(***************************************************************************)
(* FileTraverser: the built-in exclusion sets.                             *)
(***************************************************************************)

DEFAULT_EXCLUDE_DIRS == {
    "__pycache__", ".pytest_cache", "venv", ".venv", "env", ".env", "_site",
    "site-packages", ".tox", "build", "dist", "*.egg-info", "node_modules",
    ".npm", ".yarn", ".pnpm-store", ".next", "out", ".cache", ".parcel-cache",
    ".nuxt", ".output", ".vercel", ".netlify", "coverage", ".turbo", ".swc",
    "storybook-static", ".storybook", ".docusaurus", ".vuepress",
    ".gatsby-cache", "public/sw.js", "target", ".gradle", ".m2", "bin",
    "classes", "test-classes", "generated-sources", "generated-test-sources",
    ".mvn", "gradle-wrapper", "wrapper", ".git", ".svn", ".hg", ".bzr",
    ".vscode", ".idea", ".vs", ".eclipse", ".metadata", ".recommenders",
    ".settings", "nbproject", "cmake-build-debug", "cmake-build-release",
    ".tmp", "temp", "logs", ".logs" }

DEFAULT_EXCLUDE_EXTENSIONS == {
    ".pyc", ".pyo", ".pyd", ".so", ".dll", ".dylib", ".exe", ".bin", ".o",
    ".obj", ".class", ".jar", ".war", ".ear", ".jmod", ".pdf", ".map",
    ".min.js", ".min.css", ".jpg", ".jpeg", ".png", ".gif", ".bmp", ".tiff",
    ".tif", ".svg", ".ico", ".webp", ".raw", ".cr2", ".nef", ".orf", ".sr2",
    ".avif", ".mp4", ".avi", ".mkv", ".mov", ".wmv", ".flv", ".webm", ".m4v",
    ".3gp", ".mp3", ".wav", ".flac", ".aac", ".ogg", ".wma", ".m4a", ".zip",
    ".rar", ".7z", ".tar", ".gz", ".bz2", ".xz", ".lzma", ".doc", ".docx",
    ".xls", ".xlsx", ".ppt", ".pptx", ".ttf", ".otf", ".woff", ".woff2",
    ".eot", ".db", ".sqlite", ".sqlite3", ".mdb", ".log", ".out", ".tmp",
    ".temp", ".swp", ".swo", ".bak", ".backup", "~", ".deb", ".rpm", ".msi",
    ".dmg", ".pkg", ".p12", ".pfx", ".crt", ".cer", ".key", ".pem" }

DEFAULT_EXCLUDE_NAMES == {
    ".DS_Store", "Thumbs.db", "desktop.ini", "package-lock.json", "yarn.lock",
    "pnpm-lock.yaml", "bun.lockb", "Pipfile.lock", "poetry.lock",
    "composer.lock", "Gemfile.lock", "next-env.d.ts", "next.config.js",
    "next.config.mjs", "next.config.ts", "tsconfig.tsbuildinfo",
    ".eslintcache", ".stylelintcache", "sw.js", "workbox-*.js",
    "precache-manifest.*.js", "service-worker.js", ".env.local",
    ".env.development.local", ".env.test.local", ".env.production.local",
    "cypress.json", "jest.config.js", "jest.config.ts", "vitest.config.js",
    "playwright.config.js", "playwright.config.ts", "movies.yml",
    "watchlog.yml", "leaderboard.yml", ".env", "application.properties",
    "application.yml", "application.yaml", "application-dev.properties",
    "application-prod.properties", "application-test.properties",
    "application-local.properties", "bootstrap.properties", "bootstrap.yml",
    "gradle.properties", "gradlew", "gradlew.bat", "mvnw", "mvnw.cmd",
    "pom.xml.versionsBackup", ".classpath", ".project", "requirements.txt" }

DEFAULT_EXCLUDE_PATTERNS == {
    "\\.env.*", "application-.*\\.properties", "application-.*\\.ya?ml",
    ".*\\.chunk\\.js", ".*\\.chunk\\.css", ".*-[a-f0-9]{8,}\\.js",
    ".*-[a-f0-9]{8,}\\.css", "sw\\.js", "workbox-.*\\.js",
    "precache-manifest\\..*\\.js", ".*\\.hot-update\\.js",
    ".*\\.hot-update\\.json" }

\* re.match(pattern, name)
ReMatch(pattern, name) == MatchFrom(pattern, 1, {0}, name)

\* The hidden files _should_exclude_file lets through.
allowed_hidden == {
    ".gitignore", ".env.example", ".dockerignore", ".editorconfig",
    ".babelrc", ".eslintrc.js", ".eslintrc.json", ".prettierrc",
    ".prettierrc.json", ".nvmrc", ".node-version" }

(***************************************************************************)
(* FileTraverser: construction and the two filters.                        *)
(***************************************************************************)

\* The elements of a list.
Range(s) == {s[i] : i \in DOMAIN s}

\* The working directory of the run; Path(path).resolve() of a relative path.
Cwd == <<"work">>
Resolve(path) == Cwd \o <<path>>

\* The class attributes of FileTraverser, which every instance reads its
\* defaults from.
VARIABLE FileTraverser

\* Lines 18-140: the class attributes as the class statement binds them.
ClassAtImport ==
    [DEFAULT_EXCLUDE_DIRS |-> DEFAULT_EXCLUDE_DIRS,
     DEFAULT_EXCLUDE_EXTENSIONS |-> DEFAULT_EXCLUDE_EXTENSIONS,
     DEFAULT_EXCLUDE_NAMES |-> DEFAULT_EXCLUDE_NAMES,
     DEFAULT_EXCLUDE_PATTERNS |-> DEFAULT_EXCLUDE_PATTERNS]

\* FileTraverser._normalize_extensions
_normalize_extensions_keeps_case(extensions) ==
    {IF StartsWith(extensions[k], ".") THEN extensions[k] ELSE "." \o extensions[k] :
        k \in DOMAIN extensions}

_normalize_extensions(extensions) ==
    {Lower(IF StartsWith(ext, ".") THEN ext ELSE "." \o ext) :
        ext \in Range(extensions)}

\* FileTraverser.__init__, up to the checks of the path: the new object.
NewTraverser_replaces(path, exclude_dirs, exclude_extensions, exclude_names, use_defaults) ==
    LET dirs0  == IF use_defaults THEN FileTraverser.DEFAULT_EXCLUDE_DIRS ELSE {}
        exts0  == IF use_defaults THEN FileTraverser.DEFAULT_EXCLUDE_EXTENSIONS ELSE {}
        names0 == IF use_defaults THEN FileTraverser.DEFAULT_EXCLUDE_NAMES ELSE {}
        pats0  == IF use_defaults THEN FileTraverser.DEFAULT_EXCLUDE_PATTERNS ELSE {}
    IN  [path |-> Resolve(path),
         exclude_dirs |->
            IF exclude_dirs # <<>> THEN Range(exclude_dirs) ELSE dirs0,
         exclude_extensions |->
            IF exclude_extensions # <<>>
            THEN _normalize_extensions(exclude_extensions)
            ELSE exts0,
         exclude_names |->
            IF exclude_names # <<>> THEN Range(exclude_names) ELSE names0,
         exclude_patterns |-> pats0]

NewTraverser(path, exclude_dirs, exclude_extensions, exclude_names, use_defaults) ==
    LET dirs0  == IF use_defaults THEN FileTraverser.DEFAULT_EXCLUDE_DIRS ELSE {}
        exts0  == IF use_defaults THEN FileTraverser.DEFAULT_EXCLUDE_EXTENSIONS ELSE {}
        names0 == IF use_defaults THEN FileTraverser.DEFAULT_EXCLUDE_NAMES ELSE {}
        pats0  == IF use_defaults THEN FileTraverser.DEFAULT_EXCLUDE_PATTERNS ELSE {}
    IN  [path |-> Resolve(path),
         exclude_dirs |->
            IF exclude_dirs # <<>> THEN dirs0 \cup Range(exclude_dirs) ELSE dirs0,
         exclude_extensions |->
            IF exclude_extensions # <<>>
            THEN exts0 \cup _normalize_extensions(exclude_extensions)
            ELSE exts0,
         exclude_names |->
            IF exclude_names # <<>> THEN names0 \cup Range(exclude_names) ELSE names0,
         exclude_patterns |-> pats0]

\* Lines 160-178: the class attributes after FileTraverser.__init__. The
\* sets of the instance are copies, so that update() leaves the class alone.
ClassAfter_shares(exclude_dirs, exclude_extensions, exclude_names, use_defaults) ==
    IF use_defaults
    THEN [FileTraverser EXCEPT
            !.DEFAULT_EXCLUDE_DIRS = @ \cup Range(exclude_dirs),
            !.DEFAULT_EXCLUDE_EXTENSIONS = @ \cup _normalize_extensions(exclude_extensions),
            !.DEFAULT_EXCLUDE_NAMES = @ \cup Range(exclude_names)]
    ELSE FileTraverser

ClassAfter(exclude_dirs, exclude_extensions, exclude_names, use_defaults) ==
    FileTraverser

\* No FileTraverser has been constructed.
NoTraverser ==
    [path |-> <<>>, exclude_dirs |-> {}, exclude_extensions |-> {},
     exclude_names |-> {}, exclude_patterns |-> {}]

_should_exclude_dir_hides_dot(t, dir_name) ==
    dir_name \in t.exclude_dirs \/ StartsWith(dir_name, ".")

\* FileTraverser._should_exclude_dir
_should_exclude_dir(t, dir_name) == dir_name \in t.exclude_dirs

_should_exclude_file_case_sensitive(t, file_path) ==
    IF PathName(file_path) \in t.exclude_names THEN TRUE
    ELSE IF Suffix(PathName(file_path)) \in t.exclude_extensions THEN TRUE
    ELSE IF \E pattern \in t.exclude_patterns : ReMatch(pattern, PathName(file_path))
         THEN TRUE
    ELSE IF /\ StartsWith(PathName(file_path), ".")
            /\ PathName(file_path) \notin allowed_hidden
         THEN TRUE
    ELSE FALSE

_should_exclude_file_keeps_hidden(t, file_path) ==
    IF PathName(file_path) \in t.exclude_names THEN TRUE
    ELSE IF Lower(Suffix(PathName(file_path))) \in t.exclude_extensions THEN TRUE
    ELSE \E pattern \in t.exclude_patterns : ReMatch(pattern, PathName(file_path))

\* FileTraverser._should_exclude_file
_should_exclude_file(t, file_path) ==
    IF PathName(file_path) \in t.exclude_names THEN TRUE
    ELSE IF Lower(Suffix(PathName(file_path))) \in t.exclude_extensions THEN TRUE
    ELSE IF \E pattern \in t.exclude_patterns : ReMatch(pattern, PathName(file_path))
         THEN TRUE
    ELSE IF /\ StartsWith(PathName(file_path), ".")
            /\ PathName(file_path) \notin allowed_hidden
         THEN TRUE
    ELSE FALSE

(***************************************************************************)
(* The file system the script runs on.                                     *)
(***************************************************************************)

\* The most files a directory tree of the model holds, and the most roots a
\* command line names.
MaxFiles == 3
MaxRoots == 2

Absent == [kind |-> "absent", read |-> "", text |-> "", size |-> 0]
Directory == [kind |-> "dir", read |-> "", text |-> "", size |-> 0]
\* A file that decodes as UTF-8 to text (of one byte a character); one that
\* holds four bytes that are not UTF-8; one of two bytes whose open() fails
\* with PermissionError. size is what stat() gives as st_size.
TextFile(text) ==
    [kind |-> "file", read |-> "text", text |-> text, size |-> Len(text)]
BinaryFile == [kind |-> "file", read |-> "binary", text |-> "", size |-> 4]
DeniedFile == [kind |-> "file", read |-> "denied", text |-> "", size |-> 2]
\* A symbolic link whose target does not exist: os.walk lists it among the
\* files of its directory; open() and stat() on it fail with
\* FileNotFoundError.
DanglingLink == [kind |-> "file", read |-> "missing", text |-> "", size |-> 0]

\* The roots a command line may name: two directories, a path that does not
\* exist and a regular file.
RootArgs == {"proj", "build", "nope", "notes.txt"}

\* The hidden files a tree may hold: one that _should_exclude_file lets
\* through and one that it does not. (They are in the trees that
\* write_files_to_output traverses without the defaults.)
HiddenCandidates == {<<"work", "proj", ".gitignore">>, <<"work", "proj", ".secret">>}

\* The files a tree may hold, with what reading them gives.
CandidateFiles ==
    [p \in {<<"work", "proj", "a.txt">>, <<"work", "proj", "b.log">>,
            <<"work", "proj", "c.dat">>, <<"work", "proj", "z.txt">>,
            <<"work", "proj", ".git", "HEAD">>,
            <<"work", "proj", ".cfg", "sub", "k.txt">>,
            <<"work", "build", "r.txt">>} \cup HiddenCandidates |->
        CASE p = <<"work", "proj", "a.txt">> -> TextFile("hi")
          [] p = <<"work", "proj", "c.dat">> -> BinaryFile
          [] p = <<"work", "proj", "z.txt">> -> DeniedFile
          [] OTHER -> TextFile(PathName(p) \o "\n")]

\* The output paths a run may be given, with what is there before the run:
\* an old file of the working directory, a new file inside the root proj, a
\* file of a directory that does not exist, and a directory.
OutputChoices ==
    {[output |-> <<"work", "old.txt">>, before |-> TextFile("old\n")],
     [output |-> <<"work", "proj", "out.txt">>, before |-> Absent],
     [output |-> <<"work", "nodir", "out.txt">>, before |-> Absent],
     [output |-> <<"work", "build">>, before |-> Directory]}

\* An output path that lies in a root: the output file is one of the files
\* of the tree then.
OutputInRoot(output) ==
    \E path \in RootArgs : IsUnder(output, Resolve(path)) /\ output # Resolve(path)

\* The proper ancestors of a path, the working directory included.
Ancestors(p) == {SubSeq(p, 1, n) : n \in 1..(Len(p) - 1)}

FsPaths ==
    UNION {Ancestors(p) \cup {p} : p \in DOMAIN CandidateFiles}
        \cup {Resolve(r) : r \in RootArgs}
        \cup {o.output : o \in OutputChoices}
        \cup {<<"work", "nodir">>}

\* The file system that holds the files present and the output path as it is
\* before the run.
MakeFs(present, out) ==
    [p \in FsPaths |->
        IF p = out.output THEN out.before
        ELSE IF p \in present THEN CandidateFiles[p]
        ELSE IF p \in {Cwd, Resolve("proj"), Resolve("build")} THEN Directory
        ELSE IF p = Resolve("notes.txt") THEN TextFile("notes\n")
        ELSE IF \E f \in present : p \in Ancestors(f) THEN Directory
        ELSE Absent]

Exists(f, p) == p \in DOMAIN f /\ f[p].kind # "absent"
IsDir(f, p) == p \in DOMAIN f /\ f[p].kind = "dir"

\* os.scandir(dir): the entries of a directory, by kind.
SubDirs(f, dir) ==
    {p \in DOMAIN f : Len(p) = Len(dir) + 1 /\ IsUnder(p, dir) /\ f[p].kind = "dir"}
FilesIn(f, dir) ==
    {p \in DOMAIN f : Len(p) = Len(dir) + 1 /\ IsUnder(p, dir) /\ f[p].kind = "file"}

\* The orders a directory listing may come in.
Orders(S) ==
    {s \in [1..Cardinality(S) -> S] : \A i, j \in DOMAIN s : i # j => s[i] # s[j]}

(***************************************************************************)
(* The state of a run.                                                     *)
(***************************************************************************)

VARIABLES
    entry,      \* the code that is run: "main", "write_files_to_output", "filter"
    fs,         \* the file system: path -> what is there (on disk)
    args,       \* the parsed command line (an API call's arguments)
    paths,      \* args.paths: its first path, and the others once the run
                \* has looked at them
    closed,     \* whether paths is the whole of args.paths
    i,          \* how many of the paths the for loop has taken
    trav,       \* the FileTraverser last constructed
    ctor,       \* the last call of FileTraverser(path, ...) and how it ended
    walk,       \* os.walk: the directories still to visit, the next one first
    files,      \* traverse(): the files collected so far
    queue,      \* the files of sorted(files) the for loop has not taken yet
    cur,        \* the file the for loop is at
    content,    \* the content read from cur
    handle,     \* the output file object: "none", "open", "closed", "dropped"
    written,    \* the write() calls made on the output file object, in order
    console,    \* the lines printed
    reads,      \* the files opened for reading, in order
    pc,         \* where the run is
    result,     \* how the entry point ended
    run,        \* 1 for the first run, 2 for the run repeated
    prev,       \* what the first run left, once it is repeated
    probe       \* the last call of a filter and its answer

vars ==
    <<entry, fs, args, paths, closed, i, trav, ctor, walk, files, queue, cur,
      content, handle, written, console, reads, pc, result, run, prev, probe,
      FileTraverser>>

Returned_falls_through(code, exc) == [how |-> "returned", code |-> 0, exc |-> exc]

Running == [how |-> "running", code |-> 0, exc |-> ""]
Returned(code, exc) == [how |-> "returned", code |-> code, exc |-> exc]
Raised(exc) == [how |-> "raised", code |-> 0, exc |-> exc]

NoCtor == [path |-> "", outcome |-> ""]
NoProbe == [kind |-> "", name |-> "", excluded |-> FALSE]
NoPrev == [ran |-> FALSE, disk |-> Absent, written |-> <<>>, result |-> Running]

\* One write() call: the source line of the call, the file whose block it
\* belongs to (<<>> for none) and the text written.
Chunk(line, file, text) == [line |-> line, file |-> file, text |-> text]

\* One print() call.
Printed(line, text) == [line |-> line, text |-> text]

\* The text a sequence of write() calls adds up to.
RECURSIVE FlatText(_)
FlatText(w) == IF w = <<>> THEN "" ELSE w[1].text \o FlatText(Tail(w))

Flushed_drops_buffer(f, h, out, w) == f

\* The file system once the output file object is flushed. The files of the
\* model are smaller than the object's buffer, so nothing reaches the disk
\* before the object is closed or reclaimed.
Flushed(f, h, out, w) ==
    IF h = "open" THEN [f EXCEPT ![out] = TextFile(FlatText(w))] ELSE f

\* The exclusions a run of main() or write_files_to_output is given.
RunExclusions ==
    {[exclude_dirs |-> <<>>, exclude_ext |-> <<>>, exclude_names |-> <<>>],
     [exclude_dirs |-> <<"sub", "a.txt">>, exclude_ext |-> <<"DAT">>,
      exclude_names |-> <<"r.txt">>]}

\* The mode flags a command line may hold: none (the contents are combined)
\* and every combination of the three.
ModeFlags == [list_only : BOOLEAN, info : BOOLEAN, show_exclusions : BOOLEAN]

\* Line 393: the contents are combined when no mode flag is given.
Combine_unless_show(a) == ~a.show_exclusions

Combine(a) == ~a.list_only /\ ~a.info /\ ~a.show_exclusions

\* The exclusions the filters are tried with.
FilterExtensions ==
    {<<>>, <<"txt">>, <<".TXT">>, <<".txt">>, <<"Py", ".dat">>, <<"">>, <<"min.js">>}
FilterExclusions ==
    [exclude_dirs : {<<>>, <<"sub", ".cfg">>},
     exclude_ext : FilterExtensions,
     exclude_names : {<<>>, <<"a.txt", "Makefile">>}]

\* The file and directory names the filters are tried on.
ProbeFiles ==
    {"a.txt", "A.TXT", "b.log", "B.LOG", "c.dat", "m.py", "Makefile", "HEAD",
     "yarn.lock", ".gitignore", ".env.example", ".env", ".secret", ".hidden.txt",
     "sw.js", "sw.json", "asw.js", "app.min.js", "app.chunk.js", "x.chunk.jsx",
     "main-0123abcd.js", "main-0123abc.js", "application-dev.yml",
     "application-dev.yaml", "application.yml", "workbox-1.js", "notes~",
     "archive.tar.gz", "a.", "x.hot-update.json", "style.min.css", "a.pyc"}
        \cup allowed_hidden
ProbeDirs == {"sub", ".git", ".cfg", "node_modules", "build", "a.txt", "Build"}

\* The trees an entry point is run on.
Trees(e) ==
    IF e = "filter" THEN {{}}
    ELSE IF e = "write_files_to_output" THEN SUBSET (DOMAIN CandidateFiles)
    ELSE SUBSET (DOMAIN CandidateFiles \ HiddenCandidates)

Init ==
    /\ entry \in {"main", "write_files_to_output", "filter"}
    /\ \E present \in Trees(entry), out \in OutputChoices,
          no_defaults \in BOOLEAN, flags \in ModeFlags,
          ex \in RunExclusions \cup FilterExclusions :
        /\ Cardinality(present) + (IF OutputInRoot(out.output) THEN 1 ELSE 0) <= MaxFiles
        /\ (entry # "main" => Combine(flags))
        /\ IF entry = "filter"
           THEN /\ ex \in FilterExclusions
                /\ present = {}
                /\ out.output = <<"work", "old.txt">>
           ELSE /\ ex \in RunExclusions
                /\ (present \cap HiddenCandidates # {} => no_defaults)
                /\ \/ out.output = <<"work", "old.txt">>
                   \/ (~no_defaults /\ ex.exclude_dirs = <<>>)
                /\ (no_defaults => ex.exclude_dirs = <<>>)
                /\ \/ Combine(flags)
                   \/ /\ \/ out.output = <<"work", "old.txt">>
                         \/ /\ out.output = <<"work", "proj", "out.txt">>
                            /\ flags.list_only /\ flags.info
                      /\ ex.exclude_dirs = <<>>
                      /\ (no_defaults => flags.show_exclusions)
                      /\ (flags.show_exclusions =>
                            present \subseteq {<<"work", "proj", "a.txt">>})
        /\ \/ fs = MakeFs(present, out)
           \/ /\ flags.info
              /\ <<"work", "proj", "z.txt">> \in present
              /\ fs = [MakeFs(present, out) EXCEPT
                          ![<<"work", "proj", "z.txt">>] = DanglingLink]
        /\ args = [output |-> out.output, no_defaults |-> no_defaults,
                   exclude_dirs |-> ex.exclude_dirs, exclude_ext |-> ex.exclude_ext,
                   exclude_names |-> ex.exclude_names,
                   list_only |-> flags.list_only, info |-> flags.info,
                   show_exclusions |-> flags.show_exclusions]
    /\ \E path \in RootArgs : paths = <<path>>
    /\ closed = (entry # "main")
    /\ i = 0
    /\ trav = NoTraverser
    /\ ctor = NoCtor
    /\ walk = <<>>
    /\ files = <<>>
    /\ queue = <<>>
    /\ cur = <<>>
    /\ content = ""
    /\ handle = "none"
    /\ written = <<>>
    /\ console = <<>>
    /\ reads = <<>>
    /\ pc = CASE entry = "main" -> "m_open"
              [] entry = "write_files_to_output" -> "w_new"
              [] OTHER -> "f_new"
    /\ result = Running
    /\ run = 1
    /\ prev = NoPrev
    /\ probe = NoProbe
    /\ FileTraverser = ClassAtImport

(***************************************************************************)
(* FileTraverser.__init__ and FileTraverser.traverse.                      *)
(***************************************************************************)

InitOutcome_exists_only(f, t) ==
    IF ~Exists(f, t.path) THEN "FileNotFoundError" ELSE "ok"

\* How FileTraverser(path, ...) ends on file system f, t being the object
\* under construction.
InitOutcome(f, t) ==
    IF ~Exists(f, t.path) THEN "FileNotFoundError"
    ELSE IF ~IsDir(f, t.path) THEN "NotADirectoryError"
    ELSE "ok"

\* The message of the exception FileTraverser(path, ...) raises.
InitMessage(outcome, t) ==
    IF outcome = "FileNotFoundError"
    THEN "Directory not found: " \o AbsStr(t.path)
    ELSE "Path is not a directory: " \o AbsStr(t.path)

\* The class after a run has constructed a traverser.
ClassAfterRun ==
    ClassAfter(args.exclude_dirs, args.exclude_ext, args.exclude_names,
               ~args.no_defaults)

\* The traverser a run constructs for a path.
TraverserFor(path) ==
    NewTraverser(path, args.exclude_dirs, args.exclude_ext, args.exclude_names,
                 ~args.no_defaults)

\* The path the next FileTraverser is constructed for: the next of args.paths,
\* which is known already or is looked at now. (A command line is any list
\* of one to MaxRoots paths; what follows the paths a run has looked at has
\* had no effect on it, and is left open until the run gets there.)
TakesPath(path) ==
    IF i < Len(paths) THEN path = paths[i + 1] /\ paths' = paths
    ELSE /\ ~closed
         /\ Len(paths) < MaxRoots
         /\ path \in RootArgs
         /\ paths' = Append(paths, path)

\* The paths a command line may hold after those known, when the loop of
\* line 396 is left by an exception and never looks at them: none, or one
\* (what follows a path that is not looked at makes no difference either).
PathsNotTaken(known) ==
    IF closed \/ Len(known) >= MaxRoots THEN {<<>>}
    ELSE {<<>>} \cup {<<path>> : path \in RootArgs}

KeptDirs_unpruned(f, t, dir) == SubDirs(f, dir)

\* The subdirectories of dir that line 238 leaves in the walk, and the files
\* of dir that pass the filter of line 243.
KeptDirs(f, t, dir) == {d \in SubDirs(f, dir) : ~_should_exclude_dir(t, PathName(d))}
KeptFiles_unfiltered(f, t, dir) == FilesIn(f, dir)
KeptFiles(f, t, dir) == {p \in FilesIn(f, dir) : ~_should_exclude_file(t, p)}

\* traverse() is called by main() (line 415), by write_files_to_output (line
\* 250), by print_files (line 299) and by get_file_info (line 317).
\* One iteration of its loop over os.walk(self.path): the next
\* directory is listed, its excluded subdirectories are taken out of the walk
\* (line 238) and its files that pass the filter are collected (lines
\* 240-244). os.walk lists a directory in no particular order, so what is
\* kept comes in any order. When os.walk is exhausted traverse() returns to
\* its caller.
T_Step ==
    /\ pc = "walk"
    /\ \E kept \in {<<KeptDirs(fs, trav, walk[1]), KeptFiles(fs, trav, walk[1])>>} :
         \E dirs \in Orders(kept[1]), filenames \in Orders(kept[2]) :
            /\ files' = files \o filenames
            /\ walk' = dirs \o Tail(walk)
    /\ pc' = IF walk' # <<>> THEN "walk"
             ELSE IF entry # "main" THEN "w_open"
             ELSE IF args.info THEN "m_info"
             ELSE IF args.list_only THEN "m_list"
             ELSE "m_emit"
    /\ UNCHANGED <<entry, fs, args, paths, closed, i, trav, ctor, queue, cur,
                   content, handle, written, console, reads, result, run, prev,
                   probe, FileTraverser>>

(***************************************************************************)
(* main(), combine mode.                                                   *)
(***************************************************************************)

\* The directory an output path lies in.
Parent(p) == SubSeq(p, 1, Len(p) - 1)

\* The output path as the command line gives it (relative to Cwd).
OutputArg == RelStr(RelativeTo(args.output, Cwd))

\* How open(path, 'w') ends on file system f.
OpenOutcome(f, path) ==
    IF ~IsDir(f, Parent(path)) THEN "FileNotFoundError"
    ELSE IF IsDir(f, path) THEN "IsADirectoryError"
    ELSE "ok"

OpenMessage(outcome, shown) ==
    IF outcome = "FileNotFoundError"
    THEN "[Errno 2] No such file or directory: '" \o shown \o "'"
    ELSE "[Errno 21] Is a directory: '" \o shown \o "'"

\* The header and the trailer of a file's block, and the section's rule.
Bar20 == Rep("=", 20)
Bar80 == Rep("=", 80)
FileHeader(relative) ==
    Bar20 \o " FILE: " \o RelStr(relative) \o " " \o Bar20 \o "\n"
Trailer == "\n" \o Rep("=", 60) \o "\n\n"
BinaryMarker == "[Skipped: Binary file detected]\n"
ErrorMarker(file) ==
    IF fs[file].read = "missing"
    THEN "[Error reading file: [Errno 2] No such file or directory: '"
            \o AbsStr(file) \o "']\n"
    ELSE "[Error reading file: [Errno 13] Permission denied: '"
            \o AbsStr(file) \o "']\n"

\* Where main()'s loop over sorted(files) goes after a file: to the next file,
\* or on to the next path when there is none.
AfterFile(q) == IF q = <<>> THEN "m_next" ELSE "m_file"

AfterMarker_breaks(q) == "m_next"

\* Lines 435 and 438: continue.
AfterMarker(q) == AfterFile(q)

\* main() is left: the output file object, if it is still open, is reclaimed
\* with the frame and flushes what it holds.
M_Leave(res, line, text) ==
    /\ result' = res
    /\ console' = Append(console, Printed(line, text))
    /\ fs' = Flushed(fs, handle, args.output, written)
    /\ handle' = IF handle = "open" THEN "dropped" ELSE handle
    /\ pc' = "done"

\* Lines 392-394, and 451-453 when open() fails: when the contents are to be
\* combined the output file is opened for writing, before any path is looked
\* at.
M_Open ==
    /\ pc = "m_open"
    /\ LET outcome == OpenOutcome(fs, args.output) IN
        CASE ~Combine(args) ->
               /\ pc' = "m_next"
               /\ UNCHANGED <<fs, handle, result, console>>
          [] Combine(args) /\ outcome = "ok" ->
               /\ fs' = [fs EXCEPT ![args.output] = TextFile("")]
               /\ handle' = "open"
               /\ pc' = "m_next"
               /\ UNCHANGED <<result, console>>
          [] Combine(args) /\ outcome = "FileNotFoundError" ->
               M_Leave(Returned(1, outcome), 452,
                       "Error: " \o OpenMessage(outcome, OutputArg))
          [] OTHER ->
               \* not caught by main(): the exception leaves it
               /\ result' = Raised(outcome)
               /\ pc' = "done"
               /\ UNCHANGED <<fs, handle, console>>
    /\ UNCHANGED <<entry, args, paths, closed, i, trav, ctor, walk, files, queue,
                   cur, content, written, reads, run, prev, probe, FileTraverser>>

\* Lines 396-415 with 180-183, and 451-453 when the constructor raises: the
\* loop takes the next path and constructs its FileTraverser; all modes but
\* --show-exclusions then traverse the root.
M_Construct(path) ==
    /\ pc = "m_next"
    /\ i' = i + 1
    /\ LET t == TraverserFor(path)
           outcome == InitOutcome(fs, t) IN
        /\ ctor' = [path |-> path, outcome |-> outcome]
        /\ IF outcome = "ok"
           THEN /\ TakesPath(path)
                /\ trav' = t
                /\ walk' = IF args.show_exclusions THEN <<>> ELSE <<t.path>>
                /\ files' = <<>>
                /\ pc' = IF args.show_exclusions THEN "m_show" ELSE "walk"
                /\ UNCHANGED <<fs, handle, console, result, closed>>
           ELSE /\ M_Leave(Returned(1, outcome), 452,
                           "Error: " \o InitMessage(outcome, t))
                /\ \E known \in {SubSeq(paths, 1, i) \o <<path>>} :
                      /\ IF i < Len(paths) THEN path = paths[i + 1]
                         ELSE ~closed /\ Len(paths) < MaxRoots /\ path \in RootArgs
                      /\ \E rest \in PathsNotTaken(known) :
                            paths' = IF closed THEN paths ELSE known \o rest
                /\ closed' = TRUE
                /\ UNCHANGED <<trav, walk, files>>
    /\ FileTraverser' = ClassAfterRun
    /\ UNCHANGED <<entry, args, queue, cur, content, written, reads, run,
                   prev, probe>>

\* Line 396, the loop is exhausted: args.paths holds at least one path.
M_LoopEnd ==
    /\ pc = "m_next"
    /\ i = Len(paths)
    /\ Len(paths) >= 1
    /\ closed' = TRUE
    /\ pc' = "m_close"
    /\ UNCHANGED <<entry, fs, args, paths, i, trav, ctor, walk, files, queue, cur,
                   content, handle, written, console, reads, result, run, prev,
                   probe, FileTraverser>>

\* Lines 415-425: after traverse(), a root without files is skipped; the
\* section header of any other is written and its files are sorted. (Nothing
\* reads the order of files after sorted(files): the model keeps the list
\* sorted from here on.)
SectionHeader_counts_readable ==
    <<Chunk(420, <<>>, Bar80 \o "\n"),
      Chunk(421, <<>>, "Directory: " \o AbsStr(trav.path) \o "\n"),
      Chunk(422, <<>>, "Total files: "
                       \o Dec(Len(SelectSeq(files, LAMBDA p : fs[p].read = "text")))
                       \o "\n"),
      Chunk(423, <<>>, Bar80 \o "\n\n")>>

SectionHeader ==
    <<Chunk(420, <<>>, Bar80 \o "\n"),
      Chunk(421, <<>>, "Directory: " \o AbsStr(trav.path) \o "\n"),
      Chunk(422, <<>>, "Total files: " \o Dec(Len(files)) \o "\n"),
      Chunk(423, <<>>, Bar80 \o "\n\n")>>

M_Emit_stops_at_empty ==
    /\ pc = "m_emit"
    /\ IF files = <<>>
       THEN /\ console' = Append(console,
                            Printed(417, "No files found in " \o paths[i]))
            /\ pc' = "m_close"
            /\ UNCHANGED <<written, queue>>
       ELSE /\ written' = written \o SectionHeader
            /\ queue' = Sorted(files)
            /\ pc' = "m_file"
            /\ UNCHANGED console
    /\ files' = Sorted(files)
    /\ UNCHANGED <<entry, fs, args, paths, closed, i, trav, ctor, walk, cur,
                   content, handle, reads, result, run, prev, probe, FileTraverser>>

M_Emit ==
    /\ pc = "m_emit"
    /\ IF files = <<>>
       THEN /\ console' = Append(console,
                            Printed(417, "No files found in " \o paths[i]))
            /\ pc' = "m_next"
            /\ UNCHANGED <<written, queue>>
       ELSE /\ written' = written \o SectionHeader
            /\ queue' = Sorted(files)
            /\ pc' = "m_file"
            /\ UNCHANGED console
    /\ files' = Sorted(files)
    /\ UNCHANGED <<entry, fs, args, paths, closed, i, trav, ctor, walk, cur,
                   content, handle, reads, result, run, prev, probe, FileTraverser>>

\* Lines 425-428: the loop takes the next file and writes its header.
M_FileHeader ==
    /\ pc = "m_file"
    /\ cur' = queue[1]
    /\ queue' = Tail(queue)
    /\ written' = Append(written,
                    Chunk(428, queue[1], FileHeader(RelativeTo(queue[1], trav.path))))
    /\ pc' = "m_read"
    /\ UNCHANGED <<entry, fs, args, paths, closed, i, trav, ctor, walk, files,
                   content, handle, console, reads, result, run, prev, probe, FileTraverser>>

\* Lines 430-438: the file is read; when it cannot be, a marker is written
\* and the loop continues with the next file.
M_Read ==
    /\ pc = "m_read"
    /\ reads' = Append(reads, cur)
    /\ CASE fs[cur].read = "text" ->
              /\ content' = fs[cur].text
              /\ pc' = "m_body"
              /\ UNCHANGED written
         [] fs[cur].read = "binary" ->
              /\ written' = Append(written, Chunk(434, cur, BinaryMarker))
              /\ pc' = AfterMarker(queue)
              /\ UNCHANGED content
         [] OTHER ->
              /\ written' = Append(written, Chunk(437, cur, ErrorMarker(cur)))
              /\ pc' = AfterMarker(queue)
              /\ UNCHANGED content
    /\ UNCHANGED <<entry, fs, args, paths, closed, i, trav, ctor, walk, files,
                   queue, cur, handle, console, result, run, prev, probe, FileTraverser>>

\* Lines 440-443: the content, a line end if it lacks one, and the trailer.
Body ==
    <<Chunk(440, cur, content)>>
      \o (IF ~EndsWith(content, "\n") THEN <<Chunk(442, cur, "\n")>> ELSE <<>>)
      \o <<Chunk(443, cur, Trailer)>>

M_Body ==
    /\ pc = "m_body"
    /\ written' = written \o Body
    /\ pc' = AfterFile(queue)
    /\ UNCHANGED <<entry, fs, args, paths, closed, i, trav, ctor, walk, files,
                   queue, cur, content, handle, console, reads, result, run, prev,
                   probe, FileTraverser>>

M_Close_leaves_open ==
    /\ pc = "m_close"
    /\ IF handle = "open"
       THEN /\ console' = Append(console,
                  Printed(449, "Combined output written to '" \o OutputArg \o "'"))
            /\ UNCHANGED <<fs, handle>>
       ELSE UNCHANGED <<fs, handle, console>>
    /\ result' = Returned(0, "")
    /\ pc' = "done"
    /\ UNCHANGED <<entry, args, paths, closed, i, trav, ctor, walk, files, queue,
                   cur, content, written, reads, run, prev, probe, FileTraverser>>

\* Lines 447-449 and 458: the output file is closed and main() returns 0.
M_Close ==
    /\ pc = "m_close"
    /\ IF handle = "open"
       THEN /\ fs' = Flushed(fs, handle, args.output, written)
            /\ handle' = "closed"
            /\ console' = Append(console,
                  Printed(449, "Combined output written to '" \o OutputArg \o "'"))
       ELSE UNCHANGED <<fs, handle, console>>
    /\ result' = Returned(0, "")
    /\ pc' = "done"
    /\ UNCHANGED <<entry, args, paths, closed, i, trav, ctor, walk, files, queue,
                   cur, content, written, reads, run, prev, probe, FileTraverser>>

\* Lines 405-408 with 341-345: --show-exclusions prints the four sets. The
\* model keeps each set itself in place of the text of its sorted list.
Listing(line, label, S) ==
    [line |-> line,
     text |-> "Excluded " \o label \o " (" \o Dec(Cardinality(S)) \o "): ",
     list |-> S]

M_Show ==
    /\ pc = "m_show"
    /\ console' = console \o
          <<Printed(406, "\nExclusions for " \o paths[i] \o ":"),
            Printed(341, "Current exclusion settings:"),
            Listing(342, "directories", trav.exclude_dirs),
            Listing(343, "extensions", trav.exclude_extensions),
            Listing(344, "filenames", trav.exclude_names),
            Listing(345, "patterns", trav.exclude_patterns),
            Printed(408, "")>>
    /\ pc' = "m_next"
    /\ UNCHANGED <<entry, fs, args, paths, closed, i, trav, ctor, walk, files,
                   queue, cur, content, handle, written, reads, result, run, prev,
                   probe, FileTraverser>>

\* print(): one line for each element of a sequence of texts.
PrintAll(line, texts) == [k \in DOMAIN texts |-> Printed(line, texts[k])]

\* Lines 411-412 with 299-313: --list-only prints the files of the root in
\* sorted order, relative to the root.
M_List ==
    /\ pc = "m_list"
    /\ console' =
          IF files = <<>>
          THEN Append(console, Printed(302, "No files found matching the criteria."))
          ELSE console
                 \o <<Printed(305, "Found " \o Dec(Len(files)) \o " files:"),
                      Printed(306, Rep("-", 50))>>
                 \o PrintAll(311, [k \in DOMAIN files |->
                                    RelStr(RelativeTo(Sorted(files)[k], trav.path))])
    /\ pc' = "m_next"
    /\ UNCHANGED <<entry, fs, args, paths, closed, i, trav, ctor, walk, files, queue,
                   cur, content, handle, written, reads, result, run, prev, probe, FileTraverser>>

\* Lines 327-328: the key a file is counted under.
TypeOf(p) ==
    IF Lower(Suffix(PathName(p))) = "" THEN "no extension"
    ELSE Lower(Suffix(PathName(p)))

\* sorted(file_types.items()): the keys in ascending order.
RECURSIVE SortedKeys(_)
SortedKeys(K) ==
    IF K = {} THEN <<>>
    ELSE LET least == CHOOSE k \in K : \A o \in K : o = k \/ StrLess(k, o)
         IN  <<least>> \o SortedKeys(K \ {least})

\* Lines 323-330: the files of a sequence whose stat() succeeds; the others
\* are passed over.
Statable(f, s) == SelectSeq(s, LAMBDA p : f[p].read # "missing")

\* sum of st_size over a sequence of files
RECURSIVE TotalSize(_, _)
TotalSize(f, s) ==
    IF s = <<>> THEN 0 ELSE f[s[1]].size + TotalSize(f, Tail(s))

\* Lines 409-410 with 317-337: --info prints the number of files, and the
\* total size and the number of each type of those whose stat() succeeds.
M_Info ==
    /\ pc = "m_info"
    /\ LET seen == Statable(fs, files)
           total_size == TotalSize(fs, seen)
           keys == SortedKeys({TypeOf(seen[k]) : k \in DOMAIN seen})
           count(ext) == Cardinality({k \in DOMAIN seen : TypeOf(seen[k]) = ext})
       IN  console' = console
             \o <<Printed(332, "Directory: " \o AbsStr(trav.path)),
                  Printed(333, "Total files: " \o Dec(Len(files))),
                  Printed(334, "Total size: " \o WithCommas(total_size)
                               \o " bytes (" \o Megabytes(total_size) \o " MB)"),
                  Printed(335, "\nFile types:")>>
             \o PrintAll(337, [k \in DOMAIN keys |->
                    "  " \o keys[k] \o ": " \o Dec(count(keys[k])) \o " files"])
    /\ pc' = "m_next"
    /\ UNCHANGED <<entry, fs, args, paths, closed, i, trav, ctor, walk, files, queue,
                   cur, content, handle, written, reads, result, run, prev, probe, FileTraverser>>

\* The write() calls the step main() is at makes one after the other.
WritesAhead ==
    IF pc = "m_emit" /\ files # <<>> THEN SectionHeader
    ELSE IF pc = "m_body" THEN Body
    ELSE <<>>

\* Lines 454-456: the user interrupts main() somewhere in its try block,
\* between two steps or between two write() calls of a step. The frame of
\* main() goes with what the traversal and the loop held; the output file
\* object, if there is one, is reclaimed with it and flushes what it holds.
M_Interrupt ==
    /\ entry = "main"
    /\ pc \in {"m_open", "m_next", "walk", "m_emit", "m_file", "m_read", "m_body",
               "m_show", "m_list", "m_info", "m_close"}
    /\ \E n \in 0..Len(WritesAhead) :
          /\ written' = written \o SubSeq(WritesAhead, 1, n)
          /\ fs' = Flushed(fs, handle, args.output, written')
    /\ result' = Returned(1, "KeyboardInterrupt")
    /\ console' = Append(console, Printed(455, "\nOperation cancelled."))
    /\ handle' = IF handle = "open" THEN "dropped" ELSE handle
    /\ walk' = <<>>
    /\ files' = <<>>
    /\ queue' = <<>>
    /\ cur' = <<>>
    /\ content' = ""
    /\ pc' = "done"
    /\ UNCHANGED <<entry, args, paths, closed, i, trav, ctor, reads, run, prev,
                   probe, FileTraverser>>

(***************************************************************************)
(* FileTraverser(path, ...).write_files_to_output(output_file), as a        *)
(* caller of the class runs it.                                            *)
(***************************************************************************)

\* Lines 158-183: the caller constructs the traverser; an exception of the
\* constructor goes to the caller.
W_Construct ==
    /\ pc = "w_new"
    /\ i' = i + 1
    /\ LET t == TraverserFor(paths[1])
           outcome == InitOutcome(fs, t) IN
        /\ ctor' = [path |-> paths[1], outcome |-> outcome]
        /\ IF outcome = "ok"
           THEN /\ trav' = t
                /\ walk' = <<t.path>>
                /\ files' = <<>>
                /\ pc' = "walk"
                /\ UNCHANGED result
           ELSE /\ result' = Raised(outcome)
                /\ pc' = "done"
                /\ UNCHANGED <<trav, walk, files>>
    /\ FileTraverser' = ClassAfterRun
    /\ UNCHANGED <<entry, fs, args, paths, closed, queue, cur, content, handle,
                   written, console, reads, run, prev, probe>>

\* Lines 250-262, and 294-295 when open() fails: without files nothing is
\* opened; otherwise the output file is opened, the header is written and the
\* files are sorted. (Only the length of files is read after sorted(files):
\* the model keeps the list sorted from here on.)
W_Open ==
    /\ pc = "w_open"
    /\ LET outcome == OpenOutcome(fs, args.output) IN
        CASE files = <<>> ->
               /\ console' = Append(console,
                     Printed(253, "No files found matching the criteria."))
               /\ result' = Returned(0, "")
               /\ pc' = "done"
               /\ UNCHANGED <<fs, handle, written, queue>>
          [] files # <<>> /\ outcome = "ok" ->
               /\ fs' = [fs EXCEPT ![args.output] = TextFile("")]
               /\ handle' = "open"
               /\ written' =
                    <<Chunk(258, <<>>, "Combined file contents from directory: "
                                        \o AbsStr(trav.path) \o "\n"),
                      Chunk(259, <<>>, "Total files processed: "
                                        \o Dec(Len(files)) \o "\n"),
                      Chunk(260, <<>>, Bar80 \o "\n\n")>>
               /\ queue' = Sorted(files)
               /\ pc' = "w_file"
               /\ UNCHANGED <<console, result>>
          [] OTHER ->
               /\ console' = Append(console,
                     Printed(295, "Error writing to output file '" \o OutputArg
                                  \o "': " \o OpenMessage(outcome, OutputArg)))
               /\ result' = Returned(0, outcome)
               /\ pc' = "done"
               /\ UNCHANGED <<fs, handle, written, queue>>
    /\ files' = Sorted(files)
    /\ UNCHANGED <<entry, args, paths, closed, i, trav, ctor, walk, cur,
                   content, reads, run, prev, probe, FileTraverser>>

\* Lines 262-271: the loop takes the next file and writes its header.
W_FileHeader ==
    /\ pc = "w_file"
    /\ cur' = queue[1]
    /\ queue' = Tail(queue)
    /\ written' = Append(written,
                    Chunk(271, queue[1], FileHeader(RelativeTo(queue[1], trav.path))))
    /\ pc' = "w_read"
    /\ UNCHANGED <<entry, fs, args, paths, closed, i, trav, ctor, walk, files,
                   content, handle, console, reads, result, run, prev, probe, FileTraverser>>

\* Lines 274-284: the file is read and written, or a marker in its place.
W_Read ==
    /\ pc = "w_read"
    /\ reads' = Append(reads, cur)
    /\ CASE fs[cur].read = "text" ->
              /\ content' = fs[cur].text
              /\ written' = written
                    \o <<Chunk(277, cur, fs[cur].text)>>
                    \o (IF ~EndsWith(fs[cur].text, "\n")
                        THEN <<Chunk(279, cur, "\n")>> ELSE <<>>)
         [] fs[cur].read = "binary" ->
              /\ written' = Append(written, Chunk(282, cur, BinaryMarker))
              /\ UNCHANGED content
         [] OTHER ->
              /\ written' = Append(written, Chunk(284, cur, ErrorMarker(cur)))
              /\ UNCHANGED content
    /\ pc' = "w_trailer"
    /\ UNCHANGED <<entry, fs, args, paths, closed, i, trav, ctor, walk, files,
                   queue, cur, handle, console, result, run, prev, probe, FileTraverser>>

\* Line 286: the trailer, after the content and after a marker alike.
W_Trailer ==
    /\ pc = "w_trailer"
    /\ written' = Append(written, Chunk(286, cur, Trailer))
    /\ pc' = IF queue = <<>> THEN "w_close" ELSE "w_file"
    /\ UNCHANGED <<entry, fs, args, paths, closed, i, trav, ctor, walk, files,
                   queue, cur, content, handle, console, reads, result, run, prev,
                   probe, FileTraverser>>

\* Lines 257 (the end of the with block) and 292.
W_Close ==
    /\ pc = "w_close"
    /\ fs' = Flushed(fs, handle, args.output, written)
    /\ handle' = "closed"
    /\ console' = Append(console,
          Printed(292, "Successfully combined " \o Dec(Len(files))
                       \o " files into '" \o OutputArg \o "'"))
    /\ result' = Returned(0, "")
    /\ pc' = "done"
    /\ UNCHANGED <<entry, args, paths, closed, i, trav, ctor, walk, files, queue,
                   cur, content, written, reads, run, prev, probe, FileTraverser>>

(***************************************************************************)
(* The run repeated: the same call on the file system the first run left.  *)
(***************************************************************************)

Rerun ==
    /\ pc = "done"
    /\ run = 1
    /\ entry \in {"main", "write_files_to_output"}
    /\ Combine(args)
    /\ result.exc # "KeyboardInterrupt"
    /\ run' = 2
    /\ prev' = [ran |-> TRUE, disk |-> fs[args.output], written |-> written,
                result |-> result]
    /\ pc' = IF entry = "main" THEN "m_open" ELSE "w_new"
    /\ i' = 0
    /\ trav' = NoTraverser
    /\ ctor' = NoCtor
    /\ walk' = <<>>
    /\ files' = <<>>
    /\ queue' = <<>>
    /\ cur' = <<>>
    /\ content' = ""
    /\ handle' = "none"
    /\ written' = <<>>
    /\ console' = <<>>
    /\ reads' = <<>>
    /\ result' = Running
    /\ FileTraverser' = IF entry = "main" THEN ClassAtImport ELSE FileTraverser
    /\ UNCHANGED <<entry, fs, args, paths, closed, probe>>

(***************************************************************************)
(* The filters of a traverser, called one at a time.                       *)
(***************************************************************************)

\* Lines 158-183.
F_Construct ==
    /\ pc = "f_new"
    /\ i' = i + 1
    /\ LET t == TraverserFor(paths[1])
           outcome == InitOutcome(fs, t) IN
        /\ ctor' = [path |-> paths[1], outcome |-> outcome]
        /\ IF outcome = "ok"
           THEN /\ trav' = t
                /\ pc' = "f_ready"
                /\ UNCHANGED result
           ELSE /\ result' = Raised(outcome)
                /\ pc' = "done"
                /\ UNCHANGED trav
    /\ FileTraverser' = ClassAfterRun
    /\ UNCHANGED <<entry, fs, args, paths, closed, walk, files, queue, cur,
                   content, handle, written, console, reads, run, prev, probe>>

\* Lines 199-223: self._should_exclude_file(self.path / name)
F_File(name) ==
    /\ pc = "f_ready"
    /\ probe' = [kind |-> "file", name |-> name,
                 excluded |-> _should_exclude_file(trav, trav.path \o <<name>>)]
    /\ result' = Returned(0, "")
    /\ pc' = "done"
    /\ UNCHANGED <<entry, fs, args, paths, closed, i, trav, ctor, walk, files,
                   queue, cur, content, handle, written, console, reads, run,
                   prev, FileTraverser>>

\* Lines 195-197: self._should_exclude_dir(name)
F_Dir(name) ==
    /\ pc = "f_ready"
    /\ probe' = [kind |-> "dir", name |-> name,
                 excluded |-> _should_exclude_dir(trav, name)]
    /\ result' = Returned(0, "")
    /\ pc' = "done"
    /\ UNCHANGED <<entry, fs, args, paths, closed, i, trav, ctor, walk, files,
                   queue, cur, content, handle, written, console, reads, run,
                   prev, FileTraverser>>

Next ==
    \/ M_Open
    \/ \E path \in RootArgs : M_Construct(path)
    \/ M_LoopEnd
    \/ T_Step
    \/ M_Emit
    \/ M_FileHeader
    \/ M_Read
    \/ M_Body
    \/ M_Show
    \/ M_List
    \/ M_Info
    \/ M_Close
    \/ M_Interrupt
    \/ W_Construct
    \/ W_Open
    \/ W_FileHeader
    \/ W_Read
    \/ W_Trailer
    \/ W_Close
    \/ Rerun
    \/ F_Construct
    \/ \E name \in ProbeFiles : F_File(name)
    \/ \E name \in ProbeDirs : F_Dir(name)

Spec == Init /\ [][Next]_vars

(***************************************************************************)
(* The properties checked.                                                 *)
(***************************************************************************)

\* The checks of _should_exclude_file, each on its own.
NameCheck(t, name) == name \in t.exclude_names
ExtensionCheck(t, name) == Lower(Suffix(name)) \in t.exclude_extensions
PatternCheck(t, name) == \E pattern \in t.exclude_patterns : ReMatch(pattern, name)
HiddenCheck(t, name) == StartsWith(name, ".") /\ name \notin allowed_hidden
Checks(t, name) ==
    <<NameCheck(t, name), ExtensionCheck(t, name), PatternCheck(t, name),
      HiddenCheck(t, name)>>

\* The decision when the four checks, of the outcomes given, are evaluated in
\* a given order and the first that holds decides.
DecidedIn(order, outcomes) ==
    \E k \in 1..4 : /\ outcomes[order[k]]
                    /\ \A j \in 1..(k - 1) : ~outcomes[order[j]]

\* C1: _should_exclude_file answers true for a file exactly when one of the
\* four checks holds (its name is in exclude_names, its lower-cased extension
\* is in exclude_extensions, a pattern of exclude_patterns matches its name,
\* or its name starts with "." and is not on the allow-list), and evaluating
\* the four checks in any other order gives the same answer.
C1_ExcludeIffSomeCheck ==
    probe.kind = "file" =>
        /\ probe.excluded =
              (\/ NameCheck(trav, probe.name)
               \/ ExtensionCheck(trav, probe.name)
               \/ PatternCheck(trav, probe.name)
               \/ HiddenCheck(trav, probe.name))
        /\ \A outcomes \in {Checks(trav, probe.name)} :
              \A order \in Orders(1..4) :
                 DecidedIn(order, outcomes) = probe.excluded

\* A file that only the last of the checks in the code's order excludes, and
\* one that only the extension check does, by an extension in upper case.
C1_Witness ==
    /\ probe.kind = "file"
    /\ probe.excluded
    /\ \/ /\ HiddenCheck(trav, probe.name)
          /\ ~NameCheck(trav, probe.name)
          /\ ~ExtensionCheck(trav, probe.name)
          /\ ~PatternCheck(trav, probe.name)
       \/ /\ probe.name = "B.LOG"
          /\ ~NameCheck(trav, probe.name)
          /\ ~PatternCheck(trav, probe.name)
          /\ ~HiddenCheck(trav, probe.name)

\* An extension without one leading dot, and extensions and lists of them
\* that differ only in letter case or in the leading dot.
StripDot(e) == IF StartsWith(e, ".") THEN SubSeq(e, 2, Len(e)) ELSE e
SameExtension(a, b) == Lower(StripDot(a)) = Lower(StripDot(b))
SameExtensions(x, y) ==
    Len(x) = Len(y) /\ \A k \in DOMAIN x : SameExtension(x[k], y[k])

\* C6: _normalize_extensions maps every extension given to its lower-case,
\* dot-prefixed form ("log" and ".LOG" both to ".log"); two traversers built
\* from extensions that differ only in letter case or in the leading dot
\* exclude the same files; and normalizing a normalized extension leaves it
\* unchanged.
C6_NormalizedExtensions ==
    (entry = "filter" /\ pc = "f_ready") =>
        LET given == args.exclude_ext
            normalized == _normalize_extensions(given)
        IN  /\ \A k \in DOMAIN given :
                  Lower("." \o StripDot(given[k])) \in normalized
            /\ \A e \in normalized :
                  /\ StartsWith(e, ".")
                  /\ e = Lower(e)
                  /\ \E k \in DOMAIN given : e = Lower("." \o StripDot(given[k]))
                  /\ _normalize_extensions(<<e>>) = {e}
            /\ _normalize_extensions(<<"log">>) = {".log"}
            /\ _normalize_extensions(<<".LOG">>) = {".log"}
            /\ \A other \in FilterExtensions :
                  SameExtensions(other, given) =>
                     \A name \in ProbeFiles :
                        _should_exclude_file(
                            NewTraverser(paths[1], args.exclude_dirs, other,
                                         args.exclude_names, ~args.no_defaults),
                            trav.path \o <<name>>)
                        = _should_exclude_file(trav, trav.path \o <<name>>)

\* A traverser built without the defaults from ".TXT": it excludes a.txt, as
\* the one built from "txt" does.
C6_Witness ==
    /\ entry = "filter"
    /\ pc = "f_ready"
    /\ args.no_defaults
    /\ args.exclude_ext = <<".TXT">>
    /\ args.exclude_names = <<>>
    /\ SameExtensions(<<"txt">>, args.exclude_ext)
    /\ _should_exclude_file(trav, trav.path \o <<"a.txt">>)

\* C7: with use_defaults each exclusion set of a constructed traverser is the
\* default set united with the values given (the extensions normalized), so
\* no default is removed; without use_defaults each set holds the values
\* given and nothing else, and is empty when none is given.
C7_DefaultsUnitedWithGiven ==
    trav # NoTraverser =>
        LET dirs == Range(args.exclude_dirs)
            extensions == {Lower("." \o StripDot(e)) : e \in Range(args.exclude_ext)}
            names == Range(args.exclude_names)
        IN  IF ~args.no_defaults
            THEN /\ trav.exclude_dirs = DEFAULT_EXCLUDE_DIRS \cup dirs
                 /\ trav.exclude_extensions = DEFAULT_EXCLUDE_EXTENSIONS \cup extensions
                 /\ trav.exclude_names = DEFAULT_EXCLUDE_NAMES \cup names
                 /\ trav.exclude_patterns = DEFAULT_EXCLUDE_PATTERNS
                 /\ DEFAULT_EXCLUDE_DIRS \subseteq trav.exclude_dirs
                 /\ DEFAULT_EXCLUDE_EXTENSIONS \subseteq trav.exclude_extensions
                 /\ DEFAULT_EXCLUDE_NAMES \subseteq trav.exclude_names
            ELSE /\ trav.exclude_dirs = dirs
                 /\ trav.exclude_extensions = extensions
                 /\ trav.exclude_names = names
                 /\ trav.exclude_patterns = {}
                 /\ (args.exclude_dirs = <<>> => trav.exclude_dirs = {})
                 /\ (args.exclude_ext = <<>> => trav.exclude_extensions = {})
                 /\ (args.exclude_names = <<>> => trav.exclude_names = {})

\* A traverser built with the defaults and with values of the user's that are
\* no defaults.
C7_Witness ==
    /\ trav # NoTraverser
    /\ ~args.no_defaults
    /\ "sub" \in Range(args.exclude_dirs) \ DEFAULT_EXCLUDE_DIRS
    /\ "sub" \in trav.exclude_dirs
    /\ "node_modules" \in trav.exclude_dirs
    /\ ".dat" \in trav.exclude_extensions \ DEFAULT_EXCLUDE_EXTENSIONS
    /\ "r.txt" \in trav.exclude_names \ DEFAULT_EXCLUDE_NAMES

\* Where traverse() or a renderer is running, or a filter may be called.
OnTraverser ==
    pc \in {"walk", "m_emit", "m_file", "m_read", "m_body", "m_show", "m_list",
            "m_info", "w_open", "w_file", "w_read", "w_trailer", "w_close",
            "f_ready"}

\* C10: FileTraverser(path, ...) raises FileNotFoundError when the path does
\* not exist, NotADirectoryError when it exists and is no directory, and
\* succeeds when it is a directory; traverse() and the renderers only run on
\* a traverser whose path is a directory.
C10_ConstructorChecksRoot ==
    /\ ctor # NoCtor =>
          /\ ctor.outcome = "FileNotFoundError" <=> ~Exists(fs, Resolve(ctor.path))
          /\ ctor.outcome = "NotADirectoryError" <=>
                (Exists(fs, Resolve(ctor.path)) /\ ~IsDir(fs, Resolve(ctor.path)))
          /\ ctor.outcome = "ok" <=> IsDir(fs, Resolve(ctor.path))
          /\ ctor.outcome # "ok" => (pc = "done" /\ result.exc = ctor.outcome)
    /\ OnTraverser =>
          /\ ctor.outcome = "ok"
          /\ trav.path = Resolve(ctor.path)
          /\ IsDir(fs, trav.path)

\* A constructor called on a regular file: it raised NotADirectoryError.
C10_Witness ==
    /\ ctor.outcome = "NotADirectoryError"
    /\ fs[Resolve(ctor.path)].kind = "file"
    /\ pc = "done"

\* The names of the directories that lie between a root and a path below it.
Between(root, p) == {p[n] : n \in (Len(root) + 1)..(Len(p) - 1)}

\* Where traverse() has returned its list to the caller.
Traversed == pc \in {"m_emit", "m_list", "m_info", "w_open"}

\* C2: traverse() returns no file that has, between the root and the file, a
\* directory whose name is in exclude_dirs: such a directory never enters
\* the walk, at any depth, and a root that holds nothing but directories of
\* excluded names gives the empty list.
C2_ExcludedDirsContributeNothing ==
    trav # NoTraverser =>
        /\ \A k \in DOMAIN files :
              /\ IsUnder(files[k], trav.path)
              /\ Between(trav.path, files[k]) \cap trav.exclude_dirs = {}
        /\ \A k \in DOMAIN walk :
              walk[k] # trav.path =>
                 /\ PathName(walk[k]) \notin trav.exclude_dirs
                 /\ Between(trav.path, walk[k]) \cap trav.exclude_dirs = {}
        /\ (/\ Traversed
            /\ FilesIn(fs, trav.path) = {}
            /\ \A d \in SubDirs(fs, trav.path) : PathName(d) \in trav.exclude_dirs)
              => files = <<>>

\* traverse() has returned files, and none of a file that the file filter
\* lets pass and that lies two levels below a directory of an excluded name.
C2_Witness ==
    /\ Traversed
    /\ files # <<>>
    /\ \E p \in DOMAIN fs :
          /\ fs[p].kind = "file"
          /\ IsUnder(p, trav.path)
          /\ Len(p) > Len(trav.path) + 2
          /\ ~_should_exclude_file(trav, p)
          /\ Between(trav.path, p) \cap trav.exclude_dirs # {}
          /\ p \notin Range(files)

\* What is at the output path before the first run.
OutputBefore == (CHOOSE o \in OutputChoices : o.output = args.output).before

\* C3: when main() combines and a root does not exist, it returns 1 and the
\* output file is neither created nor modified.
C3_MissingRootLeavesOutput ==
    (/\ entry = "main"
     /\ Combine(args)
     /\ run = 1
     /\ pc = "done"
     /\ ctor.outcome = "FileNotFoundError")
        => /\ result = Returned(1, "FileNotFoundError")
           /\ fs[args.output] = OutputBefore

\* The write() calls that are a file's header, a marker, a file's content.
IsHeader(c) == c.line \in {428, 271}
IsMarker(c) == c.line \in {434, 437, 282, 284}
IsContent(c) == c.line \in {440, 442, 277, 279}
Unreadable(p) == p \in DOMAIN fs /\ fs[p].kind = "file" /\ fs[p].read # "text"
MarkerOf(p) == IF fs[p].read = "binary" THEN BinaryMarker ELSE ErrorMarker(p)
Occurrences(seq, x) == Cardinality({k \in DOMAIN seq : seq[k] = x})
HeadersOf(p) == Cardinality({k \in DOMAIN written :
                                IsHeader(written[k]) /\ written[k].file = p})

\* C4: when the contents are combined and a file cannot be decoded or read, a
\* marker is written right after the file's header in place of its content,
\* the file is read once for each header, and the files after it in sorted
\* order are processed all the same.
C4_UnreadableFileGetsMarker ==
    /\ \A k \in DOMAIN written :
          /\ IsMarker(written[k]) =>
                /\ k > 1
                /\ IsHeader(written[k - 1])
                /\ written[k - 1].file = written[k].file
                /\ Unreadable(written[k].file)
                /\ written[k].text = MarkerOf(written[k].file)
          /\ (IsHeader(written[k]) /\ Unreadable(written[k].file)
                /\ k < Len(written)) => IsMarker(written[k + 1])
          /\ Unreadable(written[k].file) => ~IsContent(written[k])
    /\ \A p \in Range(reads) : Occurrences(reads, p) <= HeadersOf(p)
    /\ (/\ Combine(args)
        /\ \/ pc \in {"m_next", "m_close", "w_close"}
           \/ (pc = "done" /\ result = Returned(0, "") /\ handle = "closed"))
          => \A p \in Range(files) : HeadersOf(p) >= 1

\* main() has written a marker for a file and the header of a later file.
C4_Witness ==
    /\ entry = "main"
    /\ \E k, l \in DOMAIN written :
          /\ k < l
          /\ IsMarker(written[k])
          /\ IsHeader(written[l])
          /\ PathLess(written[k].file, written[l].file)

\* The write() calls of the section main() wrote last, and whether that
\* section is complete.
LastSection ==
    LET starts == {k \in DOMAIN written : written[k].line = 420}
        first == IF starts = {} THEN 1
                 ELSE CHOOSE k \in starts : \A j \in starts : j <= k
    IN  SubSeq(written, first, Len(written))
SectionOver ==
    \/ pc \in {"m_next", "m_close"}
    \/ (pc = "done" /\ result = Returned(0, ""))
HeaderFiles(section) ==
    LET headers == SelectSeq(section, LAMBDA c : c.line = 428)
    IN  [k \in DOMAIN headers |-> headers[k].file]

\* C5: when main() combines, every surviving file of a root gives one block,
\* in ascending order of the paths; a block is the header with the file's
\* path relative to the root, the file's content or a marker, and the
\* trailer; no header is followed by another header or by the end of the
\* section without a trailer in between.
C5_EveryBlockHasTrailer ==
    (entry = "main" /\ Combine(args)) =>
        LET section == LastSection IN
        /\ (SectionOver /\ files # <<>>) => HeaderFiles(section) = Sorted(files)
        /\ \A k \in DOMAIN section :
              section[k].line = 428 =>
                 /\ section[k].text =
                       FileHeader(RelativeTo(section[k].file, trav.path))
                 /\ \A l \in (k + 1)..Len(section) :
                       section[l].line = 428 =>
                          \E j \in (k + 1)..(l - 1) : section[j].line = 443
                 /\ SectionOver =>
                       \E j \in (k + 1)..Len(section) : section[j].line = 443

\* C8: main() run twice to combine, with the same arguments on a tree that
\* does not change in between, leaves the same content in the output file
\* both times, no run being interrupted by the user.
C8_SameOutputTwice ==
    (entry = "main" /\ Combine(args) /\ prev.ran /\ pc = "done"
        /\ result.exc # "KeyboardInterrupt") =>
        /\ fs[args.output] = prev.disk
        /\ written = prev.written
        /\ result = prev.result

\* The second run has ended and the output file holds the blocks of two
\* files or more.
C8_Witness ==
    /\ entry = "main"
    /\ Combine(args)
    /\ prev.ran
    /\ pc = "done"
    /\ result = Returned(0, "")
    /\ Len(files) >= 2
    /\ fs[args.output].kind = "file"
    /\ fs[args.output].text = FlatText(written)
    /\ Len(written) > 8

\* What a run of main() that has ended was given. A run looks at the paths
\* in order: the paths known are a command line of their own.
AllRootsValid == \A k \in DOMAIN paths : IsDir(fs, Resolve(paths[k]))
SomeRootInvalid == \E k \in DOMAIN paths : ~IsDir(fs, Resolve(paths[k]))
Interrupted == result.exc = "KeyboardInterrupt"
OutputDirMissing == ~IsDir(fs, Parent(args.output))
OutputIsDir == IsDir(fs, args.output)

\* C9 as stated: main() returns 0 when every root given is a directory and
\* the run is not interrupted, 1 when a root does not exist or is no
\* directory or the user interrupts, and no other value.
C9_ExitCodeByRoots ==
    (entry = "main" /\ pc = "done") =>
        /\ (AllRootsValid /\ ~Interrupted) => result = Returned(0, "")
        /\ (SomeRootInvalid \/ Interrupted) =>
              (result.how = "returned" /\ result.code = 1)
        /\ result.how = "returned" => result.code \in {0, 1}

\* C9, amended: main() returns 1 when the user interrupts it; when it is to
\* combine and the directory of the output file does not exist it returns 1,
\* and when the output path is a directory the exception of open() leaves
\* it; otherwise it returns 0 when every root given is a directory and 1 when
\* a root does not exist or is no directory; it returns no other value.
C9_ExitCodeByRootsAndOutput ==
    (entry = "main" /\ pc = "done") =>
        /\ Interrupted => (result.how = "returned" /\ result.code = 1)
        /\ (~Interrupted /\ Combine(args) /\ OutputDirMissing) =>
              result = Returned(1, "FileNotFoundError")
        /\ (~Interrupted /\ Combine(args) /\ ~OutputDirMissing /\ OutputIsDir) =>
              result = Raised("IsADirectoryError")
        /\ (~Interrupted /\ (~Combine(args) \/ (~OutputDirMissing /\ ~OutputIsDir))) =>
              /\ AllRootsValid => (result = Returned(0, "") /\ closed)
              /\ SomeRootInvalid =>
                    /\ result.how = "returned"
                    /\ result.code = 1
                    /\ result.exc \in {"FileNotFoundError", "NotADirectoryError"}
        /\ result.how = "returned" => result.code \in {0, 1}

\* main() was given a directory as its only root and was not interrupted, and
\* it returned 1: the directory of the output file does not exist.
C9_Witness ==
    /\ entry = "main"
    /\ pc = "done"
    /\ paths = <<"proj">>
    /\ AllRootsValid
    /\ ~Interrupted
    /\ Combine(args)
    /\ OutputDirMissing
    /\ result = Returned(1, "FileNotFoundError")

\* Where main() is inside its loop over the roots, or between the loop and
\* the close.
InRoots == pc \in {"m_next", "walk", "m_emit", "m_file", "m_read", "m_body", "m_close"}

\* C11: when main() combines, over any number of roots, the output file is
\* opened once, before the first root is taken; it stays open while roots are
\* processed; and it is closed when the run completes normally.
C11_OutputOpenedOnceAndClosed ==
    /\ []((entry = "main" /\ Combine(args)) =>
             /\ pc = "m_open" => (handle = "none" /\ i = 0)
             /\ InRoots => handle = "open"
             /\ (pc = "done" /\ result = Returned(0, "")) => handle = "closed")
    /\ [][(entry = "main" /\ handle' # handle) =>
             \/ /\ handle = "none" /\ handle' = "open"
                /\ pc = "m_open" /\ i = 0 /\ ctor = NoCtor
             \/ /\ handle = "open" /\ handle' = "closed"
                /\ pc = "m_close" /\ pc' = "done" /\ i = Len(paths)
             \/ /\ handle = "open" /\ handle' = "dropped"
                /\ pc' = "done" /\ result'.code = 1
             \/ /\ run' = run + 1 /\ handle' = "none"]_vars

\* A run over two roots has completed normally and the file is closed.
C11_Witness ==
    /\ entry = "main"
    /\ Combine(args)
    /\ pc = "done"
    /\ result = Returned(0, "")
    /\ i = 2
    /\ written # <<>>
    /\ handle = "closed"

\* The scenario of a root proj that holds a.txt with the content "hi", b.log
\* and the directory .git with one file, run with the default exclusions and
\* none of the user's, proj being the only root named.
TreeOfThree ==
    /\ trav.path = Resolve("proj")
    /\ \A k \in DOMAIN paths : paths[k] = "proj"
    /\ ~args.no_defaults
    /\ args.exclude_dirs = <<>> /\ args.exclude_ext = <<>> /\ args.exclude_names = <<>>
    /\ {p \in DOMAIN fs : fs[p].kind = "file" /\ IsUnder(p, Resolve("proj"))}
          = {<<"work", "proj", "a.txt">>, <<"work", "proj", "b.log">>,
             <<"work", "proj", ".git", "HEAD">>}
    /\ fs[<<"work", "proj", "a.txt">>] = TextFile("hi")

\* C12: in that scenario traverse() returns a.txt and nothing else, so the
\* list printed and the output combined hold a.txt alone.
C12_OnlyATxt ==
    (TreeOfThree /\ entry # "filter" /\ ~args.show_exclusions) =>
        /\ Traversed => files = <<<<"work", "proj", "a.txt">>>>
        /\ \A k \in DOMAIN console :
              /\ console[k].line # 302
              /\ console[k].line # 417
              /\ console[k].line = 305 => console[k].text = "Found 1 files:"
              /\ console[k].line = 311 => console[k].text = "a.txt"
              /\ console[k].line = 305 =>
                    (k + 2 \in DOMAIN console /\ console[k + 2].line = 311)
        /\ \A k \in DOMAIN written :
              /\ written[k].file \in {<<>>, <<"work", "proj", "a.txt">>}
              /\ written[k].line \in {422} => written[k].text = "Total files: 1\n"
              /\ IsHeader(written[k]) =>
                    written[k].text = Bar20 \o " FILE: a.txt " \o Bar20 \o "\n"
              /\ written[k].line \in {440, 277} => written[k].text = "hi"
        /\ (Combine(args) /\ pc = "done" /\ result = Returned(0, "")) =>
              Cardinality({k \in DOMAIN written : IsHeader(written[k])}) = i

\* The scenario, listed: main() has printed a.txt.
C12_Witness ==
    /\ TreeOfThree
    /\ entry = "main"
    /\ args.list_only /\ ~args.info
    /\ pc = "done"
    /\ result = Returned(0, "")
    /\ \E k \in DOMAIN console : console[k] = Printed(311, "a.txt")

\* One sequence of write() calls begins another.
IsPrefix(a, b) == Len(a) <= Len(b) /\ SubSeq(b, 1, Len(a)) = a

\* C13: when main() combines and is interrupted at any point, it returns 1;
\* what it has written is in the output file, nothing of it is removed; and
\* it is the beginning of what the run writes when it is not interrupted (the
\* run before it, with the same arguments on the same tree).
C13_InterruptKeepsPrefix ==
    /\ []((entry = "main" /\ Combine(args) /\ pc = "done" /\ Interrupted) =>
             /\ result = Returned(1, "KeyboardInterrupt")
             /\ handle \in {"none", "dropped"}
             /\ handle = "dropped" => fs[args.output] = TextFile(FlatText(written))
             /\ handle = "none" =>
                   /\ written = <<>>
                   /\ fs[args.output] = IF prev.ran THEN prev.disk ELSE OutputBefore
             /\ prev.ran =>
                   /\ IsPrefix(written, prev.written)
                   /\ StartsWith(FlatText(prev.written), FlatText(written)))
    /\ [][(entry = "main" /\ Combine(args) /\ result'.exc = "KeyboardInterrupt"
             /\ result.exc # "KeyboardInterrupt") =>
             /\ IsPrefix(written, written')
             /\ handle = "open" =>
                   StartsWith(fs'[args.output].text, FlatText(written))]_vars

\* The second run was interrupted between two write() calls of a step, after
\* the first had written more.
C13_Witness ==
    /\ entry = "main"
    /\ Combine(args)
    /\ pc = "done"
    /\ Interrupted
    /\ prev.ran
    /\ written # <<>>
    /\ written[Len(written)].line \in {421, 440}
    /\ Len(written) < Len(prev.written)
    /\ fs[args.output].text = FlatText(written)

\* The roots of the command line that a run of main() which has ended has
\* rendered: those before the one whose constructor raised, or all of them.
RootsRendered == IF ctor.outcome = "ok" THEN 1..i ELSE 1..(i - 1)

\* C14: in a run of main() over several roots a root that is missing or is
\* no directory aborts its own processing only: the error is printed, main()
\* returns 1, and every valid root of the command line, before or after the
\* invalid one, is rendered.
C14_InvalidRootAbortsOnlyItself ==
    (/\ entry = "main"
     /\ pc = "done"
     /\ ~Interrupted
     /\ closed
     /\ SomeRootInvalid
     /\ ~Combine(args) \/ handle # "none")
        => /\ result.how = "returned" /\ result.code = 1
           /\ \E k \in DOMAIN console : console[k].line = 452
           /\ \A k \in DOMAIN paths :
                 IsDir(fs, Resolve(paths[k])) => k \in RootsRendered

\* A text holds another; a line printed or a write() call names a path.
Contains(text, part) ==
    \E j \in 1..(Len(text) - Len(part) + 1) :
        SubSeq(text, j, j + Len(part) - 1) = part
LeavesTrace(p) ==
    \/ \E k \in DOMAIN console : Contains(console[k].text, PathName(p))
    \/ \E k \in DOMAIN written : IsMarker(written[k]) /\ written[k].file = p

\* get_file_info has returned to main() for the root the loop is at.
InfoPrinted ==
    /\ entry = "main"
    /\ args.info /\ ~args.show_exclusions
    /\ pc = "m_next"
    /\ ctor.outcome = "ok"

\* C15: every error of a run is printed or written as a marker into the
\* output: an invalid root, a file that cannot be read or decoded when the
\* contents are combined, a file whose size cannot be read by --info.
C15_NoErrorDropped ==
    /\ (entry = "main" /\ ctor.outcome \in {"FileNotFoundError", "NotADirectoryError"})
          => \E k \in DOMAIN console :
                /\ console[k].line = 452
                /\ Contains(console[k].text, AbsStr(Resolve(ctor.path)))
    /\ \A p \in Range(reads) : Unreadable(p) => LeavesTrace(p)
    /\ InfoPrinted =>
          \A p \in Range(files) : fs[p].read = "missing" => LeavesTrace(p)

\* The lines get_file_info printed last.
InfoBlock ==
    LET starts == {k \in DOMAIN console : console[k].line = 332}
        first == CHOOSE k \in starts : \A j \in starts : j <= k
    IN  SubSeq(console, first, Len(console))

\* The key a file is counted under, the sum of the sizes of files and the
\* lines that give the number of files of each key.
ExtensionKey(p) ==
    IF Suffix(PathName(p)) = "" THEN "no extension" ELSE Lower(Suffix(PathName(p)))
RECURSIVE SizeSum(_)
SizeSum(S) ==
    IF S = {} THEN 0
    ELSE LET p == CHOOSE q \in S : TRUE IN fs[p].size + SizeSum(S \ {p})
CountLines(S) ==
    {"  " \o ExtensionKey(p) \o ": "
        \o Dec(Cardinality({q \in S : ExtensionKey(q) = ExtensionKey(p)}))
        \o " files" : p \in S}

\* What get_file_info printed is the summary of the files returned by
\* traverse, the sizes and the types being those of the set counted.
InfoReports(counted) ==
    LET block == InfoBlock
        types == {ExtensionKey(p) : p \in counted}
    IN  /\ Len(block) = 4 + Cardinality(types)
        /\ block[1] = Printed(332, "Directory: " \o AbsStr(trav.path))
        /\ block[2] = Printed(333, "Total files: " \o Dec(Len(files)))
        /\ block[3] = Printed(334, "Total size: " \o WithCommas(SizeSum(counted))
                                   \o " bytes (" \o Megabytes(SizeSum(counted))
                                   \o " MB)")
        /\ {block[k].text : k \in 5..Len(block)} = CountLines(counted)
        /\ \A k \in 5..Len(block) : block[k].line = 337

\* C16 as stated: get_file_info reports the number of files traverse()
\* returned, the sum of the sizes of those files, and for each extension
\* (lower-cased, "no extension" when there is none) the number of those
\* files, the numbers adding up to the number of files reported.
C16_InfoTotals ==
    InfoPrinted => InfoReports(Range(files))

\* get_file_info has printed the summary of a root that holds a file whose
\* stat() fails, next to others.
C16_Witness ==
    /\ InfoPrinted
    /\ Len(files) >= 2
    /\ \E p \in Range(files) : fs[p].read = "missing"
    /\ \E k \in DOMAIN InfoBlock :
          InfoBlock[k] = Printed(333, "Total files: " \o Dec(Len(files)))
    /\ Len(InfoBlock) >= 5

\* print_files has printed the files of a root.
ListPrinted ==
    /\ entry = "main"
    /\ args.list_only /\ ~args.info /\ ~args.show_exclusions
    /\ pc = "m_next"
    /\ ctor.outcome = "ok"

\* The lines print_files printed last, the two lines of the heading left out.
ListBlock ==
    LET starts == {k \in DOMAIN console : console[k].line = 305}
        first == CHOOSE k \in starts : \A j \in starts : j <= k
    IN  SubSeq(console, first + 2, Len(console))

\* C17: print_files prints the files traverse() returned and no others, each
\* once, each relative to the root, one on a line, in ascending order of the
\* paths, whatever the order the walk produced them in.
C17_ListIsSortedFiles ==
    (ListPrinted /\ files # <<>>) =>
        LET block == ListBlock
            relative(p) == RelStr(RelativeTo(p, trav.path))
            fileAt(k) == CHOOSE p \in Range(files) : relative(p) = block[k].text
        IN  /\ Len(block) = Len(files)
            /\ \A k \in DOMAIN block : block[k].line = 311
            /\ {block[k].text : k \in DOMAIN block} = {relative(p) : p \in Range(files)}
            /\ \A p \in Range(files) :
                  Cardinality({k \in DOMAIN block : block[k].text = relative(p)}) = 1
            /\ \A j, k \in DOMAIN block : j < k => PathLess(fileAt(j), fileAt(k))

\* print_files has printed files the walk produced in another order than the
\* ascending one.
C17_Witness ==
    /\ ListPrinted
    /\ Len(files) >= 2
    /\ \E j, k \in DOMAIN files : j < k /\ PathLess(files[k], files[j])
    /\ Len(ListBlock) = Len(files)

\* The rendering action the flags select: --show-exclusions before --info,
\* --info before --list-only, and combining when none is given.
Selected ==
    IF args.show_exclusions THEN "show"
    ELSE IF args.info THEN "info"
    ELSE IF args.list_only THEN "list"
    ELSE "combine"

\* The number of times a rendering action has been started, by what it
\* prints or writes first.
Renderings(kind) ==
    CASE kind = "show" -> Cardinality({k \in DOMAIN console : console[k].line = 406})
      [] kind = "info" -> Cardinality({k \in DOMAIN console : console[k].line = 332})
      [] kind = "list" ->
            Cardinality({k \in DOMAIN console : console[k].line \in {302, 305}})
      [] OTHER ->
            Cardinality({k \in DOMAIN console : console[k].line = 417})
               + Cardinality({k \in DOMAIN written : written[k].line = 420})

\* C18: whatever the flags, main() performs the one rendering action they
\* select, once for each root it reaches, and no other; it opens, creates or
\* truncates the output file only when the action selected is combining.
C18_OneRenderingPerRoot ==
    entry = "main" =>
        /\ \A kind \in {"show", "info", "list", "combine"} :
              kind # Selected => Renderings(kind) = 0
        /\ (pc \in {"m_next", "m_close"} \/ result = Returned(0, ""))
              => Renderings(Selected) = i
        /\ Renderings(Selected) \in {n \in {i - 1, i} : n >= 0}
        /\ result = Returned(0, "") => i = Len(paths)
        /\ Selected # "combine" =>
              /\ handle = "none"
              /\ written = <<>>
              /\ fs[args.output] = OutputBefore
              /\ \A k \in DOMAIN console : console[k].line # 449

\* main() has returned 0 with --list-only and --info both given: --info was
\* rendered for two roots, and the output file was not created.
C18_Witness ==
    /\ entry = "main"
    /\ args.list_only /\ args.info /\ ~args.show_exclusions
    /\ result = Returned(0, "")
    /\ Len(paths) = 2
    /\ Renderings("info") = 2
    /\ ~Exists(fs, args.output)

\* The four exclusion sets of a traverser.
ExclusionSets(t) ==
    <<t.exclude_dirs, t.exclude_extensions, t.exclude_names, t.exclude_patterns>>

\* The steps that construct a FileTraverser, or start the run again.
Constructing == pc \in {"m_next", "w_new", "f_new", "done"}

\* C19: once a FileTraverser is constructed, its filters, traverse,
\* print_files, get_file_info, print_exclusions and write_files_to_output
\* leave its root path and its four exclusion sets as they are; constructing
\* a traverser, with exclusions of the user or without, leaves the DEFAULT_*
\* sets of the class as they are; so the roots of a run are all filtered
\* with the same exclusion sets.
C19_ConfigurationIsFixed ==
    /\ [](FileTraverser = ClassAtImport)
    /\ [][/\ ~Constructing => trav' = trav
          /\ (trav # NoTraverser /\ run' = run)
                => ExclusionSets(trav') = ExclusionSets(trav)]_vars

\* main() has constructed the traverser of its second root from exclusions
\* of the user added to the defaults, and has traversed the root.
C19_Witness ==
    /\ entry = "main"
    /\ i = 2
    /\ ctor.outcome = "ok"
    /\ ~args.no_defaults
    /\ args.exclude_ext # <<>>
    /\ args.exclude_names # <<>>
    /\ trav.path = Resolve(paths[2])
    /\ paths[1] # paths[2]
    /\ Traversed
    /\ files # <<>>

\* C20: when the contents are combined, the output file is not one of the
\* files that are read and written into it, also when it lies in a root
\* that is traversed and its name passes the filters; so it is for main() and
\* for write_files_to_output, the first time and when the run is repeated.
C20_OutputNeverRead ==
    (entry \in {"main", "write_files_to_output"} /\ Combine(args))
        => /\ args.output \notin Range(reads)
           /\ \A k \in DOMAIN written :
                 IsHeader(written[k]) => written[k].file # args.output

\* The sections of the output: where each starts and where it ends.
SectionStarts == {k \in DOMAIN written : written[k].line = 420}
SectionEnd(k) ==
    LET later == {j \in SectionStarts : j > k}
    IN  IF later = {} THEN Len(written)
        ELSE (CHOOSE j \in later : \A h \in later : j <= h) - 1
HeadersIn(k) ==
    Cardinality({j \in k..SectionEnd(k) : written[j].line = 428})
MarkersIn(k) ==
    Cardinality({j \in k..SectionEnd(k) : IsMarker(written[j])})

\* C21: when main() combines, the number a section's header gives as "Total
\* files" is the number of FILE headers of the section, the files that got a
\* marker in place of their content included; while a section is still being
\* written it has no more headers than that.
C21_TotalIsNumberOfHeaders ==
    (entry = "main" /\ Combine(args)) =>
        \A k \in SectionStarts :
            LET complete == SectionEnd(k) < Len(written) \/ SectionOver
            IN  /\ complete =>
                      /\ k + 2 <= SectionEnd(k)
                      /\ written[k + 2] =
                            Chunk(422, <<>>, "Total files: " \o Dec(HeadersIn(k)) \o "\n")
                /\ (~complete /\ k + 2 <= Len(written)) =>
                      /\ written[k + 2].line = 422
                      /\ \E n \in HeadersIn(k)..MaxFiles + 1 :
                            written[k + 2].text = "Total files: " \o Dec(n) \o "\n"

\* main() has returned 0 and a section of the output holds two FILE headers
\* or more, one of them followed by a marker.
C21_Witness ==
    /\ entry = "main"
    /\ Combine(args)
    /\ result = Returned(0, "")
    /\ \E k \in SectionStarts :
          /\ HeadersIn(k) >= 2
          /\ MarkersIn(k) >= 1
          /\ written[k + 2].text = "Total files: " \o Dec(HeadersIn(k)) \o "\n"

\* A filter was asked about a file by a traverser built from the defaults,
\* without exclusions of the user.
DefaultsOnly ==
    /\ entry = "filter"
    /\ probe.kind = "file"
    /\ ~args.no_defaults
    /\ args.exclude_dirs = <<>> /\ args.exclude_ext = <<>> /\ args.exclude_names = <<>>

\* C22: with the defaults and no exclusions of the user, _should_exclude_file
\* keeps every file whose name is in the list of hidden files it lets
\* through.
C22_AllowedHiddenKept ==
    (DefaultsOnly /\ probe.name \in allowed_hidden) => ~probe.excluded

\* C23: with the defaults, _should_exclude_file excludes every file whose
\* name ends in ".min.js" or ".min.css", as it excludes the files whose name
\* ends in any other entry of DEFAULT_EXCLUDE_EXTENSIONS.
C23_EveryDefaultExtensionExcludes ==
    (entry = "filter" /\ probe.kind = "file" /\ ~args.no_defaults) =>
        /\ (EndsWith(probe.name, ".min.js") \/ EndsWith(probe.name, ".min.css"))
              => probe.excluded
        /\ \A ext \in DEFAULT_EXCLUDE_EXTENSIONS :
              EndsWith(probe.name, ext) => probe.excluded

\* The files below a root, at any depth.
FilesBelow(root) ==
    {p \in DOMAIN fs : fs[p].kind = "file" /\ IsUnder(p, root) /\ p # root}

\* A file the hidden-file rule leaves out.
HiddenAndNotAllowed(p) ==
    StartsWith(PathName(p), ".") /\ PathName(p) \notin allowed_hidden

\* traverse() has returned to a caller whose traverser was built without the
\* defaults and without exclusions of the user.
TraversedBare ==
    /\ Traversed
    /\ args.no_defaults
    /\ args.exclude_dirs = <<>> /\ args.exclude_ext = <<>> /\ args.exclude_names = <<>>

FileRules(t, p) ==
    \/ NameCheck(t, PathName(p))
    \/ ExtensionCheck(t, PathName(p))
    \/ PatternCheck(t, PathName(p))
    \/ HiddenCheck(t, PathName(p))
DirRule(t, p) == Between(t.path, p) \cap t.exclude_dirs # {}

\* C25: exclude_dirs is compared with the names of the directories below the
\* root and with nothing else, not with the name of the root and not with
\* the names of files; the rules of names, extensions, patterns and hidden
\* files are applied to files and never to directories. So traverse()
\* returns the files below the root that the file rules let pass and that
\* have no directory of an excluded name between the root and them, a file
\* of a hidden directory included; and each filter, asked alone, answers by
\* its own rules.
C25_DirRulesAndFileRulesApart ==
    /\ (Traversed /\ entry \in {"main", "write_files_to_output"}) =>
          \A kept \in {{p \in FilesBelow(trav.path) : ~FileRules(trav, p)}} :
             Range(files) = {p \in kept : ~DirRule(trav, p)}
    /\ (entry = "filter" /\ probe.kind = "dir") =>
          probe.excluded = (probe.name \in trav.exclude_dirs)
    /\ (entry = "filter" /\ probe.kind = "file") =>
          /\ probe.excluded = FileRules(trav, trav.path \o <<probe.name>>)
          /\ probe.excluded =
                _should_exclude_file([trav EXCEPT !.exclude_dirs = {probe.name}],
                                     trav.path \o <<probe.name>>)

\* traverse(), with the defaults, has returned a file of a hidden directory
\* below the root.
C25_Witness ==
    /\ Traversed
    /\ ~args.no_defaults
    /\ \E p \in Range(files) :
          \E n \in (Len(trav.path) + 1)..(Len(p) - 1) :
             StartsWith(p[n], ".") /\ p[n] \notin trav.exclude_dirs

\* The roots main() found no file in, by what it printed.
EmptyRoots == {k \in DOMAIN console : console[k].line = 417}

\* C26: when main() combines and a root has no file that passes the filters,
\* nothing is written for it and the run goes on with the next root; the
\* output file is created or truncated all the same, it is closed, and
\* main() returns 0, also when no root has such a file.
C26_EmptyRootIsSkipped ==
    /\ []((entry = "main" /\ Combine(args)) =>
            /\ (pc = "m_next" /\ ctor.outcome = "ok" /\ files = <<>>) =>
                  /\ console[Len(console)] = Printed(417, "No files found in " \o paths[i])
                  /\ result = Running
                  /\ handle = "open"
            /\ result = Returned(0, "") =>
                  /\ Cardinality(EmptyRoots) + Cardinality(SectionStarts) = Len(paths)
                  /\ handle = "closed"
                  /\ fs[args.output] = TextFile(FlatText(written))
                  /\ (SectionStarts = {} => fs[args.output] = TextFile("")))
    /\ [][(entry = "main" /\ pc = "m_emit" /\ files = <<>>) =>
             /\ written' = written
             /\ result' = Running => (pc' = "m_next" /\ handle' = handle /\ fs' = fs)]_vars

\* main() has returned 0 after two roots: it found no file in the first and
\* wrote the section of the second.
C26_Witness ==
    /\ entry = "main"
    /\ Combine(args)
    /\ result = Returned(0, "")
    /\ Len(paths) = 2
    /\ \E k \in DOMAIN console :
          console[k] = Printed(417, "No files found in " \o paths[1])
    /\ Cardinality(EmptyRoots) = 1
    /\ Cardinality(SectionStarts) = 1
    /\ FilesBelow(Resolve(paths[1])) # {}

\* The blocks of the files of a sequence, each a header, the content (with
\* a line end when it lacks one) or a marker, and the trailer; and the text
\* of the blocks that were written.
RECURSIVE BlocksOf(_, _)
BlocksOf(root, seq) ==
    IF seq = <<>> THEN ""
    ELSE FileHeader(RelativeTo(seq[1], root))
            \o (IF fs[seq[1]].read = "text"
                THEN fs[seq[1]].text
                        \o (IF EndsWith(fs[seq[1]].text, "\n") THEN "" ELSE "\n")
                ELSE MarkerOf(seq[1]))
            \o Trailer
            \o BlocksOf(root, Tail(seq))
BlocksWritten == FlatText(SelectSeq(written, LAMBDA c : c.file # <<>>))

\* C27: for one root that has a file that passes the filters, and the same
\* tree, write_files_to_output and main(), when it combines, write the same
\* blocks, one for each file in ascending order: the header, the content or
\* a marker, the trailer; so it is for the files that are read and for those
\* that cannot be decoded.
C27_SameBlocksFromBoth ==
    (/\ entry \in {"main", "write_files_to_output"}
     /\ Combine(args)
     /\ ~OutputInRoot(args.output)
     /\ pc = "done"
     /\ result = Returned(0, "")
     /\ Len(paths) = 1
     /\ files # <<>>)
        => BlocksWritten = BlocksOf(trav.path, Sorted(files))

=============================================================================
